---- MODULE Spec2Model ----
(***************************************************************************)
(* State-machine model of the migration job orchestration core             *)
(* (src/src/modules/models/job_models/migrationJob.ts):                    *)
(*   - MigrationJob.setup(): the task chain, the master-detail fix-up loop *)
(*     and the query order;                                                *)
(*   - MigrationJob.updateRecords(): the forward and the backward update   *)
(*     pass with the missing-parent-lookup callback;                       *)
(*   - MigrationJob.retrieveRecords(): the six query passes;               *)
(*   - MigrationJob.validateCSVFiles() with                                *)
(*     _validateAndRepairSourceCSVFiles(), saveCachedCsvDataFiles() and    *)
(*     the CSV cache CachedCSVContent.                                     *)
(* A behaviour follows one of these operations of a job.                   *)
(* Array indexes are 0-based as in the source; a task is identified by the *)
(* position (1..NumObjects) of its descriptor in script.objects, which     *)
(* stands for the descriptor's unique name.                                *)
(***************************************************************************)
EXTENDS Integers, Sequences, FiniteSets, TLC

\* ------------------------------------------------------------- bounds ----
\* Number of descriptors in script.objects.
NumObjects == 3
\* Largest number of declared relationship edges (lookup plus master-detail).
MaxEdges == 2
\* The loop counter of the fix-up loop is read only by the comparison
\* iteration < FixupIterations.  It is kept exactly up to IterationBound; the
\* value after IterationBound is folded back to FixupIterations, which takes
\* the same branch of the loop condition as every larger value.
IterationBound == 11
\* Largest missingParentLookups list one callback invocation reports.
MaxRows == 3
\* Largest number of rows accumulated in allMissingParentLookups in one run.
MaxTotalRows == 5
\* Largest number of callback invocations inside one task.updateRecords call.
MaxCallbacks == 1
\* Largest number of rows of one file that lack an id.
MaxMissingIds == 1
\* Largest number of tasks whose CSV file does not exist.
MaxMissingFiles == 1
\* Largest number of steps in a sequence of cache operations.
MaxCacheOps == 5

\* Traits set among the descriptors of one input of SpecTraits.
MaxTraits == 2
\* Largest number of records handed to one executeCRUD() call.
MaxRecords == 2

\* -------------------------------------------------- program constants ----
\* migrationJob.ts:132  for (let iteration = 0; iteration < 10 || ...
FixupIterations == 10
\* migrationJob.ts:671  Common.addLeadnigZeros(this.idCounter++, 16)
IdWidth == 16

Objects == 1..NumObjects

VARIABLES
    \* ---- setup() ----
    objects,                        \* script.objects: id -> descriptor
    processAllSource,               \* objectToAdd.processAllSource, per id
    processAllTarget,               \* objectToAdd.processAllTarget, per id
    tasks,                          \* this.tasks
    queryTasks,                     \* this.queryTasks
    lowerIndexForAnyObjects,
    lowerIndexForReadonlyObjects,
    objectIndex,                    \* number of descriptors forEach has visited
    pc,                             \* position inside setup()
    iteration,                      \* loop counter of the fix-up loop
    swapped,                        \* setup()'s swapped
    tempTasks,                      \* snapshot taken by ___putMasterDetailsBefore
    leftIndex,
    rightIndex,
    passSwapped,                    \* swapped local to ___putMasterDetailsBefore
    \* ---- updateRecords() ----
    upc,                            \* position inside updateRecords()
    targetMedia,                    \* script.targetOrg.media
    promptOnMissingParentObjects,   \* script.promptOnMissingParentObjects
    mode,                           \* "forwards" | "backwards"
    index,                          \* loop index over this.tasks
    callbacksInCall,                \* callback invocations of the running task.updateRecords
    callbackCalls,                  \* callback invocations of the whole run
    noAbortPrompt,
    allMissingParentLookups,
    abortPrompts,                   \* invocations of Common.abortWithPrompt
    warnings,                       \* invocations of ___warn
    reported,                       \* every row handed to the callback, in order
    writes,                         \* saveCSVFileAsync calls: the data written
    updateCalls,                    \* task.updateRecords calls: <<task, mode>>
    \* ---- retrieveRecords() ----
    rpc,                            \* position inside retrieveRecords()
    passIndex,                      \* number of query loops that are over
    rindex,                         \* loop index over this.queryTasks
    retrieved,                      \* retrieveRecords()'s retrieved
    retrieveCalls,                  \* task.retrieveRecords calls: <<task, mode, reverse>>
    \* ---- validateCSVFiles() and the CSV cache ----
    cpc,                            \* position inside validateCSVFiles()
    sourceMedia,                    \* script.sourceOrg.media
    importCSVFilesAsIs,             \* script.importCSVFilesAsIs
    validateCSVFilesOnly,           \* script.validateCSVFilesOnly
    promptOnIssuesInCSVFiles,       \* script.promptOnIssuesInCSVFiles
    existingFiles,                  \* the tasks whose CSV file the snapshot found
    cindex,                         \* loop index over this.tasks
    csvIssues,                      \* this.csvIssues
    csvNoAbortPrompt,               \* noAbortPrompt of _validateAndRepairSourceCSVFiles
    csvDataCacheMap,                \* cachedCSVContent.csvDataCacheMap: <<path, rows>> in key order
    updatedFilenames,               \* cachedCSVContent.updatedFilenames
    idCounter,                      \* cachedCSVContent.idCounter
    issuedIds,                      \* every value nextId has returned, in order
    csvLog,                         \* the steps taken, in order: [ev, arg]
    issueWrites,                    \* saveCSVFileAsync(CSV_ISSUES_ERRORS_FILENAME, ..): the data
    fileWrites,                     \* Common.writeCsvFileAsync of the flush: <<path, rows>>
    \* ---- getTotalRecordsCount() and deleteOldRecords() ----
    lpc,                            \* position in the two loops
    lindex,                         \* loop index over this.tasks
    deleted,                        \* the local deleted of deleteOldRecords
    visits,                         \* the per-task calls made, in order: <<method, task>>
    \* ---- ApiEngineBase.executeCRUD() ----
    epc,                            \* position in executeCRUD
    simulationMode,                 \* this.simulationMode
    createTargetCSVFiles,           \* this.createTargetCSVFiles
    operation,                      \* this.operation
    updateRecordId,                 \* this.updateRecordId
    targetSObjectName,              \* the name the field mapping gives the object
    crudRecords,                    \* the argument allRecords of executeCRUD
    sObjectName,                    \* this.sObjectName
    oldSObjectName,                 \* this.oldSObjectName
    chunks,                         \* this.apiJobCreateResult.chunks.chunks: the records of each chunk
    chunkIndex,                     \* loop index of processCRUDApiJobAsync
    allResultRecords,               \* the local allResultRecords
    crudResult,                     \* what executeCRUD returned
    engineCalls,                    \* the methods of the engine called, in order
    targetCsvWrites                 \* writeCsvFileAsync(targetCSVFullFilename, ..): the records

setupVars == <<objects, processAllSource, processAllTarget, tasks, queryTasks,
               lowerIndexForAnyObjects, lowerIndexForReadonlyObjects, objectIndex,
               pc, iteration, swapped, tempTasks, leftIndex, rightIndex, passSwapped>>

updateVars == <<upc, targetMedia, promptOnMissingParentObjects, mode, index,
                callbacksInCall, callbackCalls, noAbortPrompt,
                allMissingParentLookups, abortPrompts, warnings, reported, writes, updateCalls>>

retrieveVars == <<rpc, passIndex, rindex, retrieved, retrieveCalls>>

csvVars == <<cpc, sourceMedia, importCSVFilesAsIs, validateCSVFilesOnly,
             promptOnIssuesInCSVFiles, existingFiles, cindex, csvIssues,
             csvNoAbortPrompt, csvDataCacheMap, updatedFilenames, idCounter, issuedIds, csvLog,
             issueWrites, fileWrites>>

loopVars == <<lpc, lindex, deleted, visits>>

engineVars == <<epc, simulationMode, createTargetCSVFiles, operation, updateRecordId,
                targetSObjectName, crudRecords, sObjectName, oldSObjectName, chunks,
                chunkIndex, allResultRecords, crudResult, engineCalls, targetCsvWrites>>

vars == <<setupVars, updateVars, retrieveVars, csvVars, loopVars, engineVars>>

\* ------------------------------------------------------ array helpers ----
Min(a, b) == IF a < b THEN a ELSE b

Max(a, b) == IF a > b THEN a ELSE b

Range(s) == {s[i] : i \in 1..Len(s)}

\* Array.prototype.indexOf: the first 0-based index of x, -1 when absent.
IndexOf(s, x) ==
    IF \E i \in 1..Len(s) : s[i] = x
    THEN (CHOOSE i \in 1..Len(s) : s[i] = x /\ \A j \in 1..(i - 1) : s[j] # x) - 1
    ELSE -1

\* The start index Array.prototype.splice uses: a negative start counts from
\* the end, and the result is clamped to 0..length.
SpliceStart(s, start) ==
    IF start < 0 THEN Max(Len(s) + start, 0) ELSE Min(start, Len(s))

\* s.splice(start, 1)
SpliceRemove(s, start) ==
    LET k == SpliceStart(s, start)
    IN  IF k < Len(s) THEN SubSeq(s, 1, k) \o SubSeq(s, k + 2, Len(s)) ELSE s

\* s.splice(start, 0, x)
SpliceInsert(s, start, x) ==
    LET k == SpliceStart(s, start)
    IN  SubSeq(s, 1, k) \o <<x>> \o SubSeq(s, k + 1, Len(s))

\* Mutant: the new task is put at the end of the list.
Unshift_AtEnd(s, x) == Append(s, x)

\* s.unshift(x)
Unshift(s, x) == <<x>> \o s

\* --------------------------------------------------- descriptor input ----
\* A declared relationship: <<kind, child, parent>>.
AllEdges == {<<k, c, p>> : k \in {"lookup", "masterDetail"}, c \in Objects, p \in Objects}

RelationEdges == {e \in AllEdges : e[2] # e[3]}

MasterDetailEdges == {e \in RelationEdges : e[1] = "masterDetail"}

RECURSIVE EdgeSetsUpTo(_, _)
EdgeSetsUpTo(S, k) ==
    IF k = 0 THEN {{}}
    ELSE LET smaller == EdgeSetsUpTo(S, k - 1)
         IN  smaller \cup {es \cup {e} : es \in smaller, e \in S}

\* name == RECORD_TYPE_SOBJECT_NAME for at most one descriptor (names are unique).
KindAssignments ==
    {k \in [Objects -> {"RecordType", "readonly", "normal"}] :
        Cardinality({o \in Objects : k[o] = "RecordType"}) <= 1}

NoFlags == [o \in Objects |-> FALSE]

Descriptors(kinds, edges, allRecords, limited) ==
    [o \in Objects |->
        [isRecordType                 |-> kinds[o] = "RecordType",
         isReadonlyObject             |-> kinds[o] # "normal",
         parentLookupObjects          |-> {e[3] : e \in {x \in edges : x[1] = "lookup" /\ x[2] = o}},
         parentMasterDetailObjects    |-> {e[3] : e \in {x \in edges : x[1] = "masterDetail" /\ x[2] = o}},
         allRecords                   |-> allRecords[o],
         isSpecialObject              |-> FALSE,
         isObjectWithoutRelationships |-> FALSE,
         hasComplexExternalId         |-> FALSE,
         hasAutonumberExternalId      |-> FALSE,
         isLimitedQuery               |-> limited[o]]]

\* The traits of a descriptor that setup() reads beside its name, isReadonlyObject
\* and its relationships.
Traits == {"allRecords", "isSpecialObject", "isObjectWithoutRelationships",
           "hasComplexExternalId", "hasAutonumberExternalId", "isLimitedQuery"}

\* The descriptors with the traits given as a set of <<object, trait>> pairs.
DescriptorsWithTraits(kinds, edges, traits) ==
    [o \in Objects |->
        [isRecordType                 |-> kinds[o] = "RecordType",
         isReadonlyObject             |-> kinds[o] # "normal",
         parentLookupObjects          |-> {e[3] : e \in {x \in edges : x[1] = "lookup" /\ x[2] = o}},
         parentMasterDetailObjects    |-> {e[3] : e \in {x \in edges : x[1] = "masterDetail" /\ x[2] = o}},
         allRecords                   |-> <<o, "allRecords">> \in traits,
         isSpecialObject              |-> <<o, "isSpecialObject">> \in traits,
         isObjectWithoutRelationships |-> <<o, "isObjectWithoutRelationships">> \in traits,
         hasComplexExternalId         |-> <<o, "hasComplexExternalId">> \in traits,
         hasAutonumberExternalId      |-> <<o, "hasAutonumberExternalId">> \in traits,
         isLimitedQuery               |-> <<o, "isLimitedQuery">> \in traits]]

\* ------------------------------------------------------------ setup() ----
SetupStart ==
    /\ processAllSource = [o \in Objects |-> FALSE]
    /\ processAllTarget = [o \in Objects |-> FALSE]
    /\ tasks = <<>>
    /\ queryTasks = <<>>
    /\ lowerIndexForAnyObjects = 0
    /\ lowerIndexForReadonlyObjects = 0
    /\ objectIndex = 0
    /\ pc = "insert"
    /\ iteration = 0
    /\ swapped = TRUE
    /\ tempTasks = <<>>
    /\ leftIndex = 0
    /\ rightIndex = 0
    /\ passSwapped = FALSE

\* Mutant: the scan keeps the first match it meets, the one at the highest index.
ScanIndexToInsert_HighestMatch(ts, objectToAdd, existedTaskIndex, indexToInsert) ==
    LET matches == {j \in lowerIndexForAnyObjects..existedTaskIndex :
                        objectToAdd \in objects[ts[j + 1]].parentLookupObjects}
    IN  IF matches = {} THEN indexToInsert
        ELSE CHOOSE j \in matches : \A k \in matches : k <= j

\* The index the scan of the normal zone chooses for objectToAdd: the scan
\* runs from the end of tasks down to lowerIndexForAnyObjects and every match
\* overwrites indexToInsert, so the lowest matching index survives.
RECURSIVE ScanIndexToInsert(_, _, _, _)
ScanIndexToInsert(ts, objectToAdd, existedTaskIndex, indexToInsert) ==
    IF existedTaskIndex >= lowerIndexForAnyObjects
    THEN LET existedTask == ts[existedTaskIndex + 1]
             isObjectToAdd_ParentLookup ==
                 objectToAdd \in objects[existedTask].parentLookupObjects
         IN  ScanIndexToInsert(ts, objectToAdd, existedTaskIndex - 1,
                 IF isObjectToAdd_ParentLookup THEN existedTaskIndex ELSE indexToInsert)
    ELSE indexToInsert

\* One iteration of script.objects.forEach.
InsertObject ==
    /\ pc = "insert"
    /\ objectIndex < NumObjects
    /\ LET id == objectIndex + 1
           objectToAdd == objects[id]
           all == objectToAdd.allRecords \/ objectToAdd.isSpecialObject
                    \/ objectToAdd.isObjectWithoutRelationships
       IN  /\ processAllSource' = [processAllSource EXCEPT ![id] = all]
           /\ processAllTarget' = [processAllTarget EXCEPT ![id] =
                  all \/ objectToAdd.hasComplexExternalId
                      \/ objectToAdd.hasAutonumberExternalId]
           /\ IF objectToAdd.isRecordType
              THEN /\ tasks' = Unshift(tasks, id)
                   /\ lowerIndexForAnyObjects' = lowerIndexForAnyObjects + 1
                   /\ lowerIndexForReadonlyObjects' = lowerIndexForReadonlyObjects + 1
              ELSE IF objectToAdd.isReadonlyObject
              THEN /\ tasks' = SpliceInsert(tasks, lowerIndexForReadonlyObjects, id)
                   /\ lowerIndexForAnyObjects' = lowerIndexForAnyObjects + 1
                   /\ UNCHANGED lowerIndexForReadonlyObjects
              ELSE IF Len(tasks) = 0
              THEN /\ tasks' = Append(tasks, id)
                   /\ UNCHANGED <<lowerIndexForAnyObjects, lowerIndexForReadonlyObjects>>
              ELSE /\ tasks' = SpliceInsert(tasks,
                          ScanIndexToInsert(tasks, id, Len(tasks) - 1, Len(tasks)), id)
                   /\ UNCHANGED <<lowerIndexForAnyObjects, lowerIndexForReadonlyObjects>>
    /\ objectIndex' = objectIndex + 1
    /\ UNCHANGED <<objects, queryTasks, pc, iteration, swapped, tempTasks,
                   leftIndex, rightIndex, passSwapped>>
    /\ UNCHANGED <<updateVars, retrieveVars, csvVars, loopVars, engineVars>>

\* forEach has visited every descriptor: let swapped = true; iteration = 0.
BeginFixup ==
    /\ pc = "insert"
    /\ objectIndex = NumObjects
    /\ swapped' = TRUE
    /\ iteration' = 0
    /\ pc' = "fixup"
    /\ UNCHANGED <<objects, processAllSource, processAllTarget, tasks, queryTasks,
                   lowerIndexForAnyObjects, lowerIndexForReadonlyObjects, objectIndex,
                   tempTasks, leftIndex, rightIndex, passSwapped>>
    /\ UNCHANGED <<updateVars, retrieveVars, csvVars, loopVars, engineVars>>

\* The condition of the fix-up loop.
FixupCondition == iteration < FixupIterations \/ ~swapped

\* iteration++ (exact up to IterationBound, then folded back)
NextIteration == IF iteration < IterationBound THEN iteration + 1 ELSE FixupIterations

\* Mutant: a lookup parent counts as well as a master-detail parent.
RightIsParentMasterDetailOfLeft_AnyParent(snapshot, l, r) ==
    \/ snapshot[r + 1] \in objects[snapshot[l + 1]].parentMasterDetailObjects
    \/ snapshot[r + 1] \in objects[snapshot[l + 1]].parentLookupObjects

\* rightIsParentMasterDetailOfLeft for the pair at indexes (l, r) of snapshot.
RightIsParentMasterDetailOfLeft(snapshot, l, r) ==
    snapshot[r + 1] \in objects[snapshot[l + 1]].parentMasterDetailObjects

\* Position of the pair (l, r) in the order the nested loops visit the pairs
\* of a snapshot of length n.
PairRank(n, l, r) == l * (n + 1) + r

\* The pairs of snapshot that the nested loops visit from (l0, r0) on and on
\* which the if-branch (the move) is taken.
MovesFrom(snapshot, l0, r0) ==
    {p \in (0..(Len(snapshot) - 2)) \X (1..(Len(snapshot) - 1)) :
        /\ p[1] < p[2]
        /\ PairRank(Len(snapshot), p[1], p[2]) >= PairRank(Len(snapshot), l0, r0)
        /\ RightIsParentMasterDetailOfLeft(snapshot, p[1], p[2])}

\* The first of them in loop order.
FirstMove(moves, n) ==
    CHOOSE p \in moves : \A q \in moves : PairRank(n, p[1], p[2]) <= PairRank(n, q[1], q[2])

\* Mutant: the right task is inserted before the left one but not removed
\* from its old place.
MoveRightBeforeLeft_NoRemove(ts, leftTask, rightTask) ==
    SpliceInsert(ts, IndexOf(ts, leftTask), rightTask)

\* self.tasks.splice(rightTaskIndex, 1); self.tasks.splice(leftTaskIndex, 0, rightTask)
\* with both indexes read from self.tasks before the first splice.
MoveRightBeforeLeft(ts, leftTask, rightTask) ==
    LET leftTaskIndex == IndexOf(ts, leftTask)
        rightTaskIndex == IndexOf(ts, rightTask)
    IN  SpliceInsert(SpliceRemove(ts, rightTaskIndex), leftTaskIndex, rightTask)

\* The loop condition holds and ___putMasterDetailsBefore is called: it takes
\* its snapshot of tasks and enters the nested loops.
CallPutMasterDetailsBefore ==
    /\ pc = "fixup"
    /\ FixupCondition
    /\ MovesFrom(tasks, 0, 1) # {}
    /\ pc' = "pass"
    /\ passSwapped' = FALSE
    /\ tempTasks' = tasks
    /\ leftIndex' = 0
    /\ rightIndex' = 1
    /\ UNCHANGED <<objects, processAllSource, processAllTarget, tasks, queryTasks,
                   lowerIndexForAnyObjects, lowerIndexForReadonlyObjects, objectIndex,
                   iteration, swapped>>
    /\ UNCHANGED <<updateVars, retrieveVars, csvVars, loopVars, engineVars>>

\* The loop condition holds and ___putMasterDetailsBefore is called on a list
\* in which no pair takes the if-branch: the nested loops end without a
\* move, the call returns false and the loop counter is incremented.
PassWithoutMove ==
    /\ pc = "fixup"
    /\ FixupCondition
    /\ MovesFrom(tasks, 0, 1) = {}
    /\ tempTasks' = tasks
    /\ passSwapped' = FALSE
    /\ swapped' = FALSE
    /\ iteration' = NextIteration
    /\ UNCHANGED <<objects, processAllSource, processAllTarget, tasks, queryTasks,
                   lowerIndexForAnyObjects, lowerIndexForReadonlyObjects, objectIndex,
                   pc, leftIndex, rightIndex>>
    /\ UNCHANGED <<updateVars, retrieveVars, csvVars, loopVars, engineVars>>

\* The loop condition fails: the fix-up loop is left.
ExitFixup ==
    /\ pc = "fixup"
    /\ ~FixupCondition
    /\ pc' = "query"
    /\ UNCHANGED <<objects, processAllSource, processAllTarget, tasks, queryTasks,
                   lowerIndexForAnyObjects, lowerIndexForReadonlyObjects, objectIndex,
                   iteration, swapped, tempTasks, leftIndex, rightIndex, passSwapped>>
    /\ UNCHANGED <<updateVars, retrieveVars, csvVars, loopVars, engineVars>>

\* The nested loops run up to the next pair whose right task is a
\* master-detail parent of its left task, and the move is made for it (the
\* iterations before it change nothing but the loop indexes).
PassMove ==
    /\ pc = "pass"
    /\ MovesFrom(tempTasks, leftIndex, rightIndex) # {}
    /\ LET move == FirstMove(MovesFrom(tempTasks, leftIndex, rightIndex), Len(tempTasks))
           l == move[1]
           r == move[2]
       IN  /\ tasks' = MoveRightBeforeLeft(tasks, tempTasks[l + 1], tempTasks[r + 1])
           /\ IF r + 1 < Len(tempTasks)
              THEN leftIndex' = l /\ rightIndex' = r + 1
              ELSE leftIndex' = l + 1 /\ rightIndex' = l + 2
    /\ passSwapped' = TRUE
    /\ UNCHANGED <<objects, processAllSource, processAllTarget, queryTasks,
                   lowerIndexForAnyObjects, lowerIndexForReadonlyObjects, objectIndex,
                   pc, iteration, swapped, tempTasks>>
    /\ UNCHANGED <<updateVars, retrieveVars, csvVars, loopVars, engineVars>>

\* No pair is left to move: ___putMasterDetailsBefore returns, its result is
\* assigned to swapped and the loop counter is incremented.
PassReturn ==
    /\ pc = "pass"
    /\ MovesFrom(tempTasks, leftIndex, rightIndex) = {}
    /\ swapped' = passSwapped
    /\ iteration' = NextIteration
    /\ pc' = "fixup"
    /\ UNCHANGED <<objects, processAllSource, processAllTarget, tasks, queryTasks,
                   lowerIndexForAnyObjects, lowerIndexForReadonlyObjects, objectIndex,
                   tempTasks, leftIndex, rightIndex, passSwapped>>
    /\ UNCHANGED <<updateVars, retrieveVars, csvVars, loopVars, engineVars>>

\* Mutant: the query order reads the target flag.
SourceAllRecords_Target(task) == processAllTarget[task]

\* task.sourceData.allRecords (TaskOrgData.allRecords with isSource = true)
SourceAllRecords(task) == processAllSource[task]

\* First loop of the query order: the fetch-all and limited-query tasks.
RECURSIVE PushFetchAll(_, _)
PushFetchAll(ts, qs) ==
    IF ts = <<>> THEN qs
    ELSE PushFetchAll(Tail(ts),
            IF SourceAllRecords(Head(ts)) \/ objects[Head(ts)].isLimitedQuery
            THEN Append(qs, Head(ts)) ELSE qs)

\* Mutant: the second loop pushes every task, also those already in queryTasks.
PushRemaining_NoCheck(ts, qs) == qs \o ts

\* Second loop of the query order: every task not yet in queryTasks.
RECURSIVE PushRemaining(_, _)
PushRemaining(ts, qs) ==
    IF ts = <<>> THEN qs
    ELSE PushRemaining(Tail(ts),
            IF IndexOf(qs, Head(ts)) < 0 THEN Append(qs, Head(ts)) ELSE qs)

CreateQueryTaskOrder ==
    /\ pc = "query"
    /\ queryTasks' = PushRemaining(tasks, PushFetchAll(tasks, queryTasks))
    /\ pc' = "done"
    /\ UNCHANGED <<objects, processAllSource, processAllTarget, tasks,
                   lowerIndexForAnyObjects, lowerIndexForReadonlyObjects, objectIndex,
                   iteration, swapped, tempTasks, leftIndex, rightIndex, passSwapped>>
    /\ UNCHANGED <<updateVars, retrieveVars, csvVars, loopVars, engineVars>>

\* ---------------------------------------------------- updateRecords() ----
\* updateRecords() is not running.
UpdateIdle ==
    /\ upc = "idle"
    /\ mode = "forwards"
    /\ index = 0
    /\ callbacksInCall = 0
    /\ callbackCalls = 0
    /\ noAbortPrompt = FALSE
    /\ allMissingParentLookups = <<>>
    /\ abortPrompts = 0
    /\ warnings = 0
    /\ reported = <<>>
    /\ writes = <<>>
    /\ updateCalls = <<>>

\* The missingParentLookups list of n rows that a task reports: row k of
\* task t is <<t, k>>, so a task that reports in both passes reports the
\* same rows twice.
MissingParentLookups(task, n) == [k \in 1..n |-> <<task, k>>]

\* Mutant: the accumulator is overwritten by the latest report.
ConcatMissing_Overwrite(all, data) == data

\* allMissingParentLookups = allMissingParentLookups.concat(data.missingParentLookups)
ConcatMissing(all, data) == all \o data

\* Mutant: noAbortPrompt is not consulted.
CallbackBranch_AlwaysPrompt == "prompt"

\* The branch the callback takes after the concat: ___warn and return when
\* noAbortPrompt is set, otherwise ___promptToAbort.
CallbackBranch == IF noAbortPrompt THEN "warn" ELSE "prompt"

\* Common.abortWithPrompt: warns, and when showPrompt is set asks whether to
\* continue; a negative answer runs the before-abort hook and raises the
\* job-abort condition, anything else returns to the caller.
AbortWithPrompt(showPrompt, answer) ==
    IF showPrompt /\ answer = "no" THEN "abort" ELSE "continue"

\* Mutant: no file is written for an empty row list.
SaveCSVFile_SkipEmpty(ws, data) == IF data = <<>> THEN ws ELSE Append(ws, data)

\* saveCSVFileAsync(MISSING_PARENT_LOOKUP_RECORDS_ERRORS_FILENAME, data):
\* one write of the report file with the rows of data.
SaveCSVFile(ws, data) == Append(ws, data)

\* The first statements of updateRecords().
StartUpdateRecords ==
    /\ pc = "done"
    /\ upc = "idle"
    /\ cpc = "idle"
    /\ upc' = "loop"
    /\ mode' = "forwards"
    /\ index' = 0
    /\ noAbortPrompt' = FALSE
    /\ allMissingParentLookups' = <<>>
    /\ UNCHANGED <<targetMedia, promptOnMissingParentObjects, callbacksInCall,
                   callbackCalls, abortPrompts, warnings, reported, writes, updateCalls>>
    /\ UNCHANGED <<setupVars, retrieveVars, csvVars, loopVars, engineVars>>

\* One iteration of a pass begins: task.updateRecords(mode, callback) is called.
CallTaskUpdateRecords ==
    /\ upc = "loop"
    /\ index < Len(tasks)
    /\ updateCalls' = Append(updateCalls, <<tasks[index + 1], mode>>)
    /\ callbacksInCall' = 0
    /\ upc' = "call"
    /\ UNCHANGED <<targetMedia, promptOnMissingParentObjects, mode, index, callbackCalls,
                   noAbortPrompt, allMissingParentLookups, abortPrompts, warnings,
                   reported, writes>>
    /\ UNCHANGED <<setupVars, retrieveVars, csvVars, loopVars, engineVars>>

\* What every invocation of the callback does first, for a report of n rows.
CallbackReceives(n) ==
    /\ upc = "call"
    /\ callbacksInCall < MaxCallbacks
    /\ Len(allMissingParentLookups) + n <= MaxTotalRows
    /\ LET data == MissingParentLookups(tasks[index + 1], n)
       IN  /\ allMissingParentLookups' = ConcatMissing(allMissingParentLookups, data)
           /\ reported' = reported \o data
    /\ callbacksInCall' = callbacksInCall + 1
    /\ callbackCalls' = callbackCalls + 1

\* The callback with noAbortPrompt set: ___warn, return.
CallbackWarns ==
    /\ \E n \in 0..MaxRows : CallbackReceives(n)
    /\ CallbackBranch = "warn"
    /\ warnings' = warnings + 1
    /\ UNCHANGED <<upc, targetMedia, promptOnMissingParentObjects, mode, index,
                   noAbortPrompt, abortPrompts, writes, updateCalls>>
    /\ UNCHANGED <<setupVars, retrieveVars, csvVars, loopVars, engineVars>>

\* The callback calls ___promptToAbort and the job continues.
CallbackPromptsAndContinues ==
    /\ \E n \in 0..MaxRows : CallbackReceives(n)
    /\ CallbackBranch = "prompt"
    /\ \E answer \in {"yes", "no"} :
           AbortWithPrompt(promptOnMissingParentObjects, answer) = "continue"
    /\ abortPrompts' = abortPrompts + 1
    /\ noAbortPrompt' = TRUE
    /\ UNCHANGED <<upc, targetMedia, promptOnMissingParentObjects, mode, index,
                   warnings, writes, updateCalls>>
    /\ UNCHANGED <<setupVars, retrieveVars, csvVars, loopVars, engineVars>>

\* The callback calls ___promptToAbort and the prompt is answered with no:
\* the before-abort hook saves the report and the job-abort condition leaves
\* updateRecords().
CallbackPromptsAndAborts ==
    /\ \E n \in 0..MaxRows : CallbackReceives(n)
    /\ CallbackBranch = "prompt"
    /\ \E answer \in {"yes", "no"} :
           AbortWithPrompt(promptOnMissingParentObjects, answer) = "abort"
    /\ abortPrompts' = abortPrompts + 1
    /\ writes' = SaveCSVFile(writes, allMissingParentLookups')
    /\ upc' = "aborted"
    /\ UNCHANGED <<targetMedia, promptOnMissingParentObjects, mode, index,
                   noAbortPrompt, warnings, updateCalls>>
    /\ UNCHANGED <<setupVars, retrieveVars, csvVars, loopVars, engineVars>>

\* task.updateRecords returns: the loop index is incremented.
TaskUpdateRecordsReturns ==
    /\ upc = "call"
    /\ index' = index + 1
    /\ upc' = "loop"
    /\ UNCHANGED <<targetMedia, promptOnMissingParentObjects, mode, callbacksInCall,
                   callbackCalls, noAbortPrompt, allMissingParentLookups, abortPrompts,
                   warnings, reported, writes, updateCalls>>
    /\ UNCHANGED <<setupVars, retrieveVars, csvVars, loopVars, engineVars>>

\* Mutant: the backward loop starts whatever the target is.
StartBackwardPass_AnyTarget ==
    /\ upc = "loop"
    /\ mode = "forwards"
    /\ index = Len(tasks)
    /\ mode' = "backwards"
    /\ index' = 0
    /\ UNCHANGED <<upc, targetMedia, promptOnMissingParentObjects, callbacksInCall,
                   callbackCalls, noAbortPrompt, allMissingParentLookups, abortPrompts,
                   warnings, reported, writes, updateCalls>>
    /\ UNCHANGED <<setupVars, retrieveVars, csvVars, loopVars, engineVars>>

\* The forward loop is over and the target is an org: the backward loop starts.
StartBackwardPass ==
    /\ upc = "loop"
    /\ mode = "forwards"
    /\ index = Len(tasks)
    /\ targetMedia = "Org"
    /\ mode' = "backwards"
    /\ index' = 0
    /\ UNCHANGED <<upc, targetMedia, promptOnMissingParentObjects, callbacksInCall,
                   callbackCalls, noAbortPrompt, allMissingParentLookups, abortPrompts,
                   warnings, reported, writes, updateCalls>>
    /\ UNCHANGED <<setupVars, retrieveVars, csvVars, loopVars, engineVars>>

\* Both passes are over (the backward one is skipped for a file target):
\* the report is saved and updateRecords() returns.
SaveMissingParentLookups ==
    /\ upc = "loop"
    /\ index = Len(tasks)
    /\ mode = "backwards" \/ targetMedia # "Org"
    /\ writes' = SaveCSVFile(writes, allMissingParentLookups)
    /\ upc' = "done"
    /\ UNCHANGED <<targetMedia, promptOnMissingParentObjects, mode, index, callbacksInCall,
                   callbackCalls, noAbortPrompt, allMissingParentLookups, abortPrompts,
                   warnings, reported, updateCalls>>
    /\ UNCHANGED <<setupVars, retrieveVars, csvVars, loopVars, engineVars>>

\* -------------------------------------------------- retrieveRecords() ----
\* retrieveRecords() is not running.
RetrieveIdle ==
    /\ rpc = "idle"
    /\ passIndex = 0
    /\ rindex = 0
    /\ retrieved = FALSE
    /\ retrieveCalls = <<>>

\* Mutant: the target loop comes before the resolution loops.
RetrievePasses_TargetEarly ==
    << <<"forwards", FALSE>>, <<"target", FALSE>>, <<"backwards", FALSE>>,
       <<"backwards", FALSE>>, <<"forwards", TRUE>>, <<"forwards", TRUE>> >>

\* The arguments (mode, reverse) of task.retrieveRecords in the query loops
\* of retrieveRecords(), in the order of the loops in the source.
RetrievePasses ==
    << <<"forwards", FALSE>>, <<"backwards", FALSE>>, <<"backwards", FALSE>>,
       <<"forwards", TRUE>>, <<"forwards", TRUE>>, <<"target", FALSE>> >>

\* let retrieved = false; the first loop begins.
StartRetrieveRecords ==
    /\ pc = "done"
    /\ rpc = "idle"
    /\ rpc' = "loop"
    /\ passIndex' = 0
    /\ rindex' = 0
    /\ retrieved' = FALSE
    /\ UNCHANGED retrieveCalls
    /\ UNCHANGED <<setupVars, updateVars, csvVars, loopVars, engineVars>>

\* One iteration of a query loop:
\* retrieved = await task.retrieveRecords(mode, reverse) || retrieved.
\* The call is the left operand, so it is made whatever retrieved holds.
CallTaskRetrieveRecords ==
    /\ rpc = "loop"
    /\ rindex < Len(queryTasks)
    /\ \E result \in BOOLEAN :
           retrieved' = (result \/ retrieved)
    /\ retrieveCalls' = Append(retrieveCalls,
           <<queryTasks[rindex + 1], RetrievePasses[passIndex + 1][1],
             RetrievePasses[passIndex + 1][2]>>)
    /\ rindex' = rindex + 1
    /\ UNCHANGED <<rpc, passIndex>>
    /\ UNCHANGED <<setupVars, updateVars, csvVars, loopVars, engineVars>>

\* A query loop is over and another one follows: retrieved = false.
NextRetrievePass ==
    /\ rpc = "loop"
    /\ rindex = Len(queryTasks)
    /\ passIndex + 1 < Len(RetrievePasses)
    /\ passIndex' = passIndex + 1
    /\ rindex' = 0
    /\ retrieved' = FALSE
    /\ UNCHANGED <<rpc, retrieveCalls>>
    /\ UNCHANGED <<setupVars, updateVars, csvVars, loopVars, engineVars>>

\* The last query loop is over: the summary is logged, retrieveRecords() returns.
FinishRetrieveRecords ==
    /\ rpc = "loop"
    /\ rindex = Len(queryTasks)
    /\ passIndex + 1 = Len(RetrievePasses)
    /\ rpc' = "done"
    /\ UNCHANGED <<passIndex, rindex, retrieved, retrieveCalls>>
    /\ UNCHANGED <<setupVars, updateVars, csvVars, loopVars, engineVars>>

\* ------------------------------------ CachedCSVContent (the CSV cache) ----
\* The decimal digits of n.
RECURSIVE DecimalDigits(_)
DecimalDigits(n) ==
    IF n < 10 THEN <<n>> ELSE Append(DecimalDigits(n \div 10), n % 10)

\* Common.addLeadnigZeros(num, size): the decimal digits of num, padded on the
\* left with zeros to size digits.
AddLeadingZeros(num, size) ==
    LET digits == DecimalDigits(num)
    IN  IF Len(digits) >= size THEN digits
        ELSE [i \in 1..(size - Len(digits)) |-> 0] \o digits

\* Mutant: the counter is appended without the leading zeros.
NextIdValue_NoPadding(counter) == [prefix |-> "ID", digits |-> DecimalDigits(counter)]

\* The value of the getter nextId for the counter value it reads:
\* "ID" + Common.addLeadnigZeros(this.idCounter++, 16).
NextIdValue(counter) == [prefix |-> "ID", digits |-> AddLeadingZeros(counter, IdWidth)]

\* The state after the constructor, which calls clear().
CacheCleared ==
    /\ csvDataCacheMap = <<>>
    /\ updatedFilenames = {}
    /\ idCounter = 1

\* clear(): the maps are replaced by empty ones and the counter is reset.
Clear ==
    /\ csvDataCacheMap' = <<>>
    /\ updatedFilenames' = {}
    /\ idCounter' = 1

CacheHas(cache, path) == \E i \in 1..Len(cache) : cache[i][1] = path

\* Common.readCsvFileOnceAsync(csvDataCacheMap, path): the rows of the file
\* are read into the cache unless the path is cached already.  A row is
\* represented by the synthetic id it is given, so a file just read holds none.
ReadCsvFileOnce(cache, path) ==
    IF CacheHas(cache, path) THEN cache ELSE Append(cache, <<path, <<>>>>)

\* A row of the cached file gets the id.
SetRowId(cache, path, id) ==
    [i \in 1..Len(cache) |->
        IF cache[i][1] = path THEN <<path, Append(cache[i][2], id)>> ELSE cache[i]]

\* k rows of the cached file get the next ids, read from counter on.
RECURSIVE AddMissingIds(_, _, _, _)
AddMissingIds(cache, path, counter, k) ==
    IF k = 0 THEN cache
    ELSE AddMissingIds(SetRowId(cache, path, NextIdValue(counter)), path, counter + 1, k - 1)

\* The values nextId returns in k reads from counter on.
NextIds(counter, k) == [i \in 1..k |-> NextIdValue(counter + i - 1)]

\* What task.repairCSV(cachedCSVContent) does to the cache: the task's file is
\* read once, and each of its k rows that lack an id gets nextId.
RepairCache(cache, path, k) ==
    AddMissingIds(ReadCsvFileOnce(cache, path), path, idCounter, k)

\* Mutant: the flush writes every cached file.
FlushWrites_All(cache, dirty) == cache

\* saveCachedCsvDataFiles(): the writes <<filePath, rows>> it makes, in the
\* order of the keys of csvDataCacheMap, for the paths in updatedFilenames.
FlushWrites(cache, dirty) == SelectSeq(cache, LAMBDA entry : entry[1] \in dirty)

Event(ev, arg) == [ev |-> ev, arg |-> arg]

\* The steps of one saveCachedCsvDataFiles() call.
FlushEvents(cache, dirty) ==
    <<Event("save", 0)>> \o
    [i \in 1..Len(FlushWrites(cache, dirty)) |-> Event("write", FlushWrites(cache, dirty)[i][1])]

\* The steps of one task.repairCSV call on the cache: the file is marked as
\* updated when a row was given an id.
RepairEvents(path, k) ==
    IF k > 0 THEN <<Event("dirty", path)>> ELSE <<>>

\* ------------------------------------------------- validateCSVFiles() ----
\* validateCSVFiles() is not running and the cache is as constructed.
CsvIdle ==
    /\ cpc = "idle"
    /\ existingFiles = {}
    /\ cindex = 0
    /\ csvIssues = <<>>
    /\ csvNoAbortPrompt = FALSE
    /\ CacheCleared
    /\ issuedIds = <<>>
    /\ csvLog = <<>>
    /\ issueWrites = <<>>
    /\ fileWrites = <<>>

\* The sets of tasks whose CSV file exists (fs.existsSync(task.data.csvFilename)):
\* at most MaxMissingFiles of the files are missing.
ExistingFileSets ==
    {S \in SUBSET Objects : Cardinality(Objects \ S) <= MaxMissingFiles}

\* _copyCSVFilesToSourceSubDir(): one copy per task whose file exists, in the
\* order of tasks.
CopyEvents(ts, existing) ==
    LET copied == SelectSeq(ts, LAMBDA t : t \in existing)
    IN  [i \in 1..Len(copied) |-> Event("copy", copied[i])]

\* The largest number of rows of the task's file that can lack an id: a file
\* that does not exist has no rows.
MissingIdsOf(task) == IF task \in existingFiles THEN MaxMissingIds ELSE 0

\* The issue rows one task.validateCSV() or task.repairCSV() call returns.
IssuesOf(task, phase, hasIssue) == IF hasIssue THEN << <<task, phase>> >> ELSE <<>>

\* Mutant: repair starts without validation.
AfterCopy_SkipValidation == IF ~importCSVFilesAsIs THEN "repair" ELSE "done"

\* Mutant: importCSVFilesAsIs is ignored and the files are validated.
AfterCopy_AlwaysValidate == "validate"

\* validateCSVFiles() after the snapshot: if (!this.script.importCSVFilesAsIs).
AfterCopy == IF ~importCSVFilesAsIs THEN "validate" ELSE "done"

\* Mutant: noAbortPrompt is not consulted after repair.
PostRepairBranch_AlwaysPrompt == IF Len(csvIssues) > 0 THEN "prompt" ELSE "none"

\* The branch taken after the flush:
\* if (this.csvIssues.length > 0) { if (!noAbortPrompt) prompt else save and warn }.
PostRepairBranch ==
    IF Len(csvIssues) > 0
    THEN (IF ~csvNoAbortPrompt THEN "prompt" ELSE "save")
    ELSE "none"

\* Mutant: validate-only mode is ignored.
AfterValidateAndRepair_NoExit == "clear"

\* validateCSVFiles() after _validateAndRepairSourceCSVFiles() has returned:
\* if (this.script.validateCSVFilesOnly) throw new SuccessExit().
AfterValidateAndRepair == IF validateCSVFilesOnly THEN "successExit" ELSE "clear"

\* validateCSVFiles() is called: nothing is done unless the source is a file;
\* otherwise the User and Group files are merged and the value mapping is loaded.
StartValidateCSVFiles ==
    /\ pc = "done"
    /\ cpc = "idle"
    /\ upc = "idle"
    /\ IF sourceMedia = "File"
       THEN /\ csvLog' = csvLog \o <<Event("merge", 0), Event("loadMapping", 0)>>
            /\ cpc' = "copy"
       ELSE /\ cpc' = "done"
            /\ UNCHANGED csvLog
    /\ UNCHANGED <<sourceMedia, importCSVFilesAsIs, validateCSVFilesOnly,
                   promptOnIssuesInCSVFiles, existingFiles, cindex, csvIssues, csvNoAbortPrompt,
                   csvDataCacheMap, updatedFilenames, idCounter, issuedIds,
                   issueWrites, fileWrites>>
    /\ UNCHANGED <<setupVars, updateVars, retrieveVars, loopVars, engineVars>>

\* this._copyCSVFilesToSourceSubDir(), then the test of importCSVFilesAsIs.
CopyCSVFilesToSourceSubDir ==
    /\ cpc = "copy"
    /\ \E existing \in ExistingFileSets :
           /\ existingFiles' = existing
           /\ csvLog' = csvLog \o CopyEvents(tasks, existing)
    /\ cpc' = AfterCopy
    /\ cindex' = 0
    /\ UNCHANGED <<sourceMedia, importCSVFilesAsIs, validateCSVFilesOnly,
                   promptOnIssuesInCSVFiles, csvIssues, csvNoAbortPrompt,
                   csvDataCacheMap, updatedFilenames, idCounter, issuedIds,
                   issueWrites, fileWrites>>
    /\ UNCHANGED <<setupVars, updateVars, retrieveVars, loopVars, engineVars>>

\* One iteration of the first loop:
\* this.csvIssues = this.csvIssues.concat(await task.validateCSV()).
ValidateCSV ==
    /\ cpc = "validate"
    /\ cindex < Len(tasks)
    /\ \E hasIssue \in BOOLEAN :
           csvIssues' = csvIssues \o IssuesOf(tasks[cindex + 1], "validateCSV", hasIssue)
    /\ csvLog' = Append(csvLog, Event("validateCSV", tasks[cindex + 1]))
    /\ cindex' = cindex + 1
    /\ UNCHANGED <<cpc, sourceMedia, importCSVFilesAsIs, validateCSVFilesOnly,
                   promptOnIssuesInCSVFiles, existingFiles, csvNoAbortPrompt,
                   csvDataCacheMap, updatedFilenames, idCounter, issuedIds,
                   issueWrites, fileWrites>>
    /\ UNCHANGED <<setupVars, updateVars, retrieveVars, loopVars, engineVars>>

\* The first loop is over and no issue was found: let noAbortPrompt = false.
ValidationWithoutIssues ==
    /\ cpc = "validate"
    /\ cindex = Len(tasks)
    /\ Len(csvIssues) = 0
    /\ csvNoAbortPrompt' = FALSE
    /\ cpc' = "repair"
    /\ cindex' = 0
    /\ UNCHANGED <<sourceMedia, importCSVFilesAsIs, validateCSVFilesOnly,
                   promptOnIssuesInCSVFiles, existingFiles, csvIssues,
                   csvDataCacheMap, updatedFilenames, idCounter, issuedIds, csvLog,
                   issueWrites, fileWrites>>
    /\ UNCHANGED <<setupVars, updateVars, retrieveVars, loopVars, engineVars>>

\* The first loop is over with issues: ___promptToAbort() returns,
\* noAbortPrompt = true.
ValidationPromptContinues ==
    /\ cpc = "validate"
    /\ cindex = Len(tasks)
    /\ Len(csvIssues) > 0
    /\ \E answer \in {"yes", "no"} :
           AbortWithPrompt(promptOnIssuesInCSVFiles, answer) = "continue"
    /\ csvLog' = Append(csvLog, Event("abortWithPrompt", 0))
    /\ csvNoAbortPrompt' = TRUE
    /\ cpc' = "repair"
    /\ cindex' = 0
    /\ UNCHANGED <<sourceMedia, importCSVFilesAsIs, validateCSVFilesOnly,
                   promptOnIssuesInCSVFiles, existingFiles, csvIssues,
                   csvDataCacheMap, updatedFilenames, idCounter, issuedIds,
                   issueWrites, fileWrites>>
    /\ UNCHANGED <<setupVars, updateVars, retrieveVars, loopVars, engineVars>>

\* Mutant: the job goes on to repair after the negative answer.
ValidationPromptAborts_GoesOn ==
    /\ cpc = "validate"
    /\ cindex = Len(tasks)
    /\ Len(csvIssues) > 0
    /\ \E answer \in {"yes", "no"} :
           AbortWithPrompt(promptOnIssuesInCSVFiles, answer) = "abort"
    /\ csvLog' = csvLog \o <<Event("abortWithPrompt", 0), Event("answerNo", 0),
                             Event("report", Len(csvIssues))>>
    /\ issueWrites' = SaveCSVFile(issueWrites, csvIssues)
    /\ csvNoAbortPrompt' = TRUE
    /\ cpc' = "repair"
    /\ cindex' = 0
    /\ UNCHANGED <<sourceMedia, importCSVFilesAsIs, validateCSVFilesOnly,
                   promptOnIssuesInCSVFiles, existingFiles, csvIssues,
                   csvDataCacheMap, updatedFilenames, idCounter, issuedIds, fileWrites>>
    /\ UNCHANGED <<setupVars, updateVars, retrieveVars, loopVars, engineVars>>

\* The first loop is over with issues and the prompt is answered with no: the
\* before-abort hook saves the issue report and the job-abort condition leaves
\* validateCSVFiles().
ValidationPromptAborts ==
    /\ cpc = "validate"
    /\ cindex = Len(tasks)
    /\ Len(csvIssues) > 0
    /\ \E answer \in {"yes", "no"} :
           AbortWithPrompt(promptOnIssuesInCSVFiles, answer) = "abort"
    /\ csvLog' = csvLog \o <<Event("abortWithPrompt", 0), Event("answerNo", 0),
                             Event("report", Len(csvIssues))>>
    /\ issueWrites' = SaveCSVFile(issueWrites, csvIssues)
    /\ cpc' = "aborted"
    /\ UNCHANGED <<sourceMedia, importCSVFilesAsIs, validateCSVFilesOnly,
                   promptOnIssuesInCSVFiles, existingFiles, cindex, csvIssues, csvNoAbortPrompt,
                   csvDataCacheMap, updatedFilenames, idCounter, issuedIds, fileWrites>>
    /\ UNCHANGED <<setupVars, updateVars, retrieveVars, loopVars, engineVars>>

\* One iteration of the second loop:
\* this.csvIssues = this.csvIssues.concat(await task.repairCSV(this.cachedCSVContent)).
RepairCSV ==
    /\ cpc = "repair"
    /\ cindex < Len(tasks)
    /\ \E hasIssue \in BOOLEAN, k \in 0..MaxMissingIds :
           LET task == tasks[cindex + 1]
           IN  /\ k <= MissingIdsOf(task)
               /\ csvIssues' = csvIssues \o IssuesOf(task, "repairCSV", hasIssue)
               /\ csvDataCacheMap' = RepairCache(csvDataCacheMap, task, k)
               /\ updatedFilenames' =
                      (IF k > 0 THEN updatedFilenames \cup {task} ELSE updatedFilenames)
               /\ idCounter' = idCounter + k
               /\ issuedIds' = issuedIds \o NextIds(idCounter, k)
               /\ csvLog' = Append(csvLog, Event("repairCSV", task))
                                \o RepairEvents(task, k)
    /\ cindex' = cindex + 1
    /\ UNCHANGED <<cpc, sourceMedia, importCSVFilesAsIs, validateCSVFilesOnly,
                   promptOnIssuesInCSVFiles, existingFiles, csvNoAbortPrompt, issueWrites, fileWrites>>
    /\ UNCHANGED <<setupVars, updateVars, retrieveVars, loopVars, engineVars>>

\* The second loop is over: await this.saveCachedCsvDataFiles().
SaveCachedCsvDataFiles ==
    /\ cpc = "repair"
    /\ cindex = Len(tasks)
    /\ fileWrites' = fileWrites \o FlushWrites(csvDataCacheMap, updatedFilenames)
    /\ csvLog' = csvLog \o FlushEvents(csvDataCacheMap, updatedFilenames)
    /\ cpc' = "flushed"
    /\ UNCHANGED <<sourceMedia, importCSVFilesAsIs, validateCSVFilesOnly,
                   promptOnIssuesInCSVFiles, existingFiles, cindex, csvIssues, csvNoAbortPrompt,
                   csvDataCacheMap, updatedFilenames, idCounter, issuedIds, issueWrites>>
    /\ UNCHANGED <<setupVars, updateVars, retrieveVars, loopVars, engineVars>>

\* No issue at all was collected: nothing is prompted and nothing is saved.
NoIssuesFound ==
    /\ cpc = "flushed"
    /\ PostRepairBranch = "none"
    /\ cpc' = "validated"
    /\ UNCHANGED <<sourceMedia, importCSVFilesAsIs, validateCSVFilesOnly,
                   promptOnIssuesInCSVFiles, existingFiles, cindex, csvIssues, csvNoAbortPrompt,
                   csvDataCacheMap, updatedFilenames, idCounter, issuedIds, csvLog,
                   issueWrites, fileWrites>>
    /\ UNCHANGED <<setupVars, updateVars, retrieveVars, loopVars, engineVars>>

\* Issues exist and validation did not prompt: ___promptToAbort() returns and
\* _validateAndRepairSourceCSVFiles() returns.
RepairPromptContinues ==
    /\ cpc = "flushed"
    /\ PostRepairBranch = "prompt"
    /\ \E answer \in {"yes", "no"} :
           AbortWithPrompt(promptOnIssuesInCSVFiles, answer) = "continue"
    /\ csvLog' = Append(csvLog, Event("abortWithPrompt", 0))
    /\ cpc' = "validated"
    /\ UNCHANGED <<sourceMedia, importCSVFilesAsIs, validateCSVFilesOnly,
                   promptOnIssuesInCSVFiles, existingFiles, cindex, csvIssues, csvNoAbortPrompt,
                   csvDataCacheMap, updatedFilenames, idCounter, issuedIds,
                   issueWrites, fileWrites>>
    /\ UNCHANGED <<setupVars, updateVars, retrieveVars, loopVars, engineVars>>

\* Issues exist, validation did not prompt and the prompt is answered with no:
\* the before-abort hook saves the issue report, the job-abort condition
\* leaves validateCSVFiles().
RepairPromptAborts ==
    /\ cpc = "flushed"
    /\ PostRepairBranch = "prompt"
    /\ \E answer \in {"yes", "no"} :
           AbortWithPrompt(promptOnIssuesInCSVFiles, answer) = "abort"
    /\ csvLog' = csvLog \o <<Event("abortWithPrompt", 0), Event("answerNo", 0),
                             Event("report", Len(csvIssues))>>
    /\ issueWrites' = SaveCSVFile(issueWrites, csvIssues)
    /\ cpc' = "aborted"
    /\ UNCHANGED <<sourceMedia, importCSVFilesAsIs, validateCSVFilesOnly,
                   promptOnIssuesInCSVFiles, existingFiles, cindex, csvIssues, csvNoAbortPrompt,
                   csvDataCacheMap, updatedFilenames, idCounter, issuedIds, fileWrites>>
    /\ UNCHANGED <<setupVars, updateVars, retrieveVars, loopVars, engineVars>>

\* Issues exist and validation has prompted: the issue report is saved and a
\* warning is logged.
RepairWarnsAndSaves ==
    /\ cpc = "flushed"
    /\ PostRepairBranch = "save"
    /\ issueWrites' = SaveCSVFile(issueWrites, csvIssues)
    /\ csvLog' = csvLog \o <<Event("report", Len(csvIssues)), Event("warn", 0)>>
    /\ cpc' = "validated"
    /\ UNCHANGED <<sourceMedia, importCSVFilesAsIs, validateCSVFilesOnly,
                   promptOnIssuesInCSVFiles, existingFiles, cindex, csvIssues, csvNoAbortPrompt,
                   csvDataCacheMap, updatedFilenames, idCounter, issuedIds, fileWrites>>
    /\ UNCHANGED <<setupVars, updateVars, retrieveVars, loopVars, engineVars>>

\* _validateAndRepairSourceCSVFiles() has returned: SuccessExit is thrown in
\* validate-only mode, otherwise this.clearCachedCSVData() and return.
FinishValidateCSVFiles ==
    /\ cpc = "validated"
    /\ IF AfterValidateAndRepair = "successExit"
       THEN /\ csvLog' = Append(csvLog, Event("successExit", 0))
            /\ cpc' = "successExit"
            /\ UNCHANGED <<csvDataCacheMap, updatedFilenames, idCounter>>
       ELSE /\ Clear
            /\ csvLog' = Append(csvLog, Event("clear", 0))
            /\ cpc' = "done"
    /\ UNCHANGED <<sourceMedia, importCSVFilesAsIs, validateCSVFilesOnly,
                   promptOnIssuesInCSVFiles, existingFiles, cindex, csvIssues, csvNoAbortPrompt,
                   issuedIds, issueWrites, fileWrites>>
    /\ UNCHANGED <<setupVars, updateVars, retrieveVars, loopVars, engineVars>>

\* ------------------------------ the cache operations called one by one ----
\* A caller reads a file into the cache (Common.readCsvFileOnceAsync).
CacheReadFile ==
    /\ cpc = "idle"
    /\ Len(csvLog) < MaxCacheOps
    /\ \E path \in Objects :
           /\ csvDataCacheMap' = ReadCsvFileOnce(csvDataCacheMap, path)
           /\ csvLog' = Append(csvLog, Event("read", path))
    /\ UNCHANGED <<cpc, sourceMedia, importCSVFilesAsIs, validateCSVFilesOnly,
                   promptOnIssuesInCSVFiles, existingFiles, cindex, csvIssues, csvNoAbortPrompt,
                   updatedFilenames, idCounter, issuedIds, issueWrites, fileWrites>>
    /\ UNCHANGED <<setupVars, updateVars, retrieveVars, loopVars, engineVars>>

\* A caller gives a row of a cached file the next id and marks the file as
\* updated.
CacheAddMissingId ==
    /\ cpc = "idle"
    /\ Len(csvLog) < MaxCacheOps
    /\ \E i \in 1..Len(csvDataCacheMap) :
           LET path == csvDataCacheMap[i][1]
           IN  /\ csvDataCacheMap' = AddMissingIds(csvDataCacheMap, path, idCounter, 1)
               /\ updatedFilenames' = updatedFilenames \cup {path}
               /\ csvLog' = Append(csvLog, Event("dirty", path))
    /\ idCounter' = idCounter + 1
    /\ issuedIds' = issuedIds \o NextIds(idCounter, 1)
    /\ UNCHANGED <<cpc, sourceMedia, importCSVFilesAsIs, validateCSVFilesOnly,
                   promptOnIssuesInCSVFiles, existingFiles, cindex, csvIssues, csvNoAbortPrompt,
                   issueWrites, fileWrites>>
    /\ UNCHANGED <<setupVars, updateVars, retrieveVars, loopVars, engineVars>>

\* A caller calls saveCachedCsvDataFiles().
CacheSave ==
    /\ cpc = "idle"
    /\ Len(csvLog) < MaxCacheOps
    /\ fileWrites' = fileWrites \o FlushWrites(csvDataCacheMap, updatedFilenames)
    /\ csvLog' = csvLog \o FlushEvents(csvDataCacheMap, updatedFilenames)
    /\ UNCHANGED <<cpc, sourceMedia, importCSVFilesAsIs, validateCSVFilesOnly,
                   promptOnIssuesInCSVFiles, existingFiles, cindex, csvIssues, csvNoAbortPrompt,
                   csvDataCacheMap, updatedFilenames, idCounter, issuedIds, issueWrites>>
    /\ UNCHANGED <<setupVars, updateVars, retrieveVars, loopVars, engineVars>>

\* A caller calls clearCachedCSVData().
CacheClear ==
    /\ cpc = "idle"
    /\ Len(csvLog) < MaxCacheOps
    /\ Clear
    /\ csvLog' = Append(csvLog, Event("clear", 0))
    /\ UNCHANGED <<cpc, sourceMedia, importCSVFilesAsIs, validateCSVFilesOnly,
                   promptOnIssuesInCSVFiles, existingFiles, cindex, csvIssues, csvNoAbortPrompt,
                   issuedIds, issueWrites, fileWrites>>
    /\ UNCHANGED <<setupVars, updateVars, retrieveVars, loopVars, engineVars>>

\* The source is an org: validateCSVFiles() has nothing to do.
NoCsvSource ==
    /\ sourceMedia = "Org"
    /\ importCSVFilesAsIs = FALSE
    /\ validateCSVFilesOnly = FALSE
    /\ promptOnIssuesInCSVFiles = FALSE

\* ------------------- getTotalRecordsCount() and deleteOldRecords() ----
\* Neither of the two methods is running.
LoopsIdle ==
    /\ lpc = "idle"
    /\ lindex = 0
    /\ deleted = FALSE
    /\ visits = <<>>

\* getTotalRecordsCount() is called: for (let index = 0; ...
StartGetTotalRecordsCount ==
    /\ pc = "done"
    /\ lpc = "idle"
    /\ lpc' = "count"
    /\ lindex' = 0
    /\ UNCHANGED <<deleted, visits>>
    /\ UNCHANGED <<setupVars, updateVars, retrieveVars, csvVars, engineVars>>

\* One iteration: await task.getTotalRecordsCountAsync(); index++.
GetTotalRecordsCountAsync ==
    /\ lpc = "count"
    /\ lindex < Len(tasks)
    /\ visits' = Append(visits, <<"getTotalRecordsCountAsync", tasks[lindex + 1]>>)
    /\ lindex' = lindex + 1
    /\ UNCHANGED <<lpc, deleted>>
    /\ UNCHANGED <<setupVars, updateVars, retrieveVars, csvVars, engineVars>>

\* index < this.tasks.length fails: getTotalRecordsCount() returns.
FinishGetTotalRecordsCount ==
    /\ lpc = "count"
    /\ lindex = Len(tasks)
    /\ lpc' = "counted"
    /\ UNCHANGED <<lindex, deleted, visits>>
    /\ UNCHANGED <<setupVars, updateVars, retrieveVars, csvVars, engineVars>>

\* deleteOldRecords() is called: let deleted = false;
\* for (let index = this.tasks.length - 1; ...
StartDeleteOldRecords ==
    /\ pc = "done"
    /\ lpc \in {"idle", "counted"}
    /\ lpc' = "delete"
    /\ deleted' = FALSE
    /\ lindex' = Len(tasks) - 1
    /\ UNCHANGED visits
    /\ UNCHANGED <<setupVars, updateVars, retrieveVars, csvVars, engineVars>>

\* One iteration: deleted = await task.deleteOldTargetRecords() || deleted; index--.
DeleteOldTargetRecords ==
    /\ lpc = "delete"
    /\ lindex >= 0
    /\ \E result \in BOOLEAN : deleted' = (result \/ deleted)
    /\ visits' = Append(visits, <<"deleteOldTargetRecords", tasks[lindex + 1]>>)
    /\ lindex' = lindex - 1
    /\ UNCHANGED lpc
    /\ UNCHANGED <<setupVars, updateVars, retrieveVars, csvVars, engineVars>>

\* index >= 0 fails: the outcome is logged and deleteOldRecords() returns.
FinishDeleteOldRecords ==
    /\ lpc = "delete"
    /\ lindex < 0
    /\ lpc' = "deleted"
    /\ UNCHANGED <<lindex, deleted, visits>>
    /\ UNCHANGED <<setupVars, updateVars, retrieveVars, csvVars, engineVars>>

\* ------------------------------------- ApiEngineBase.executeCRUD() ----
\* The engine as constructed: executeCRUD() has not been called.
EngineIdle ==
    /\ epc = "idle"
    /\ sObjectName = "Account"
    /\ oldSObjectName = "undefined"
    /\ chunks = <<>>
    /\ chunkIndex = 0
    /\ allResultRecords = <<>>
    /\ crudResult = [returned |-> "nothing", records |-> <<>>]
    /\ engineCalls = <<>>
    /\ targetCsvWrites = <<>>

\* The settings of an engine that is not used.
NoEngine ==
    /\ simulationMode = FALSE
    /\ createTargetCSVFiles = FALSE
    /\ operation = "Insert"
    /\ updateRecordId = FALSE
    /\ targetSObjectName = "Account"
    /\ crudRecords = <<>>

\* The n records handed to executeCRUD: records to insert have no Id yet.
SourceRecords(n, op) ==
    [i \in 1..n |-> [row |-> i, Id |-> IF op = "Insert" THEN "none" ELSE "known"]]

\* The records in consecutive chunks of at most size records each.
Chunked(records, size) ==
    [c \in 1..((Len(records) + size - 1) \div size) |->
        SubSeq(records, (c - 1) * size + 1, Min(c * size, Len(records)))]

\* new CsvChunks().fromArray(array).chunks: one chunk with all the records.
\* (fromArrayChunks([array]) then reads Object.keys(array[0]) for the header,
\* which throws when the array is empty.)
FromArray(array) == <<array>>

\* Mutant: the job is always created through the real API.
CreateJobMethod_AlwaysApi == "createCRUDApiJobAsync"

\* The branch `if (!this.simulationMode)` of executeCRUD.
CreateJobMethod ==
    IF ~simulationMode THEN "createCRUDApiJobAsync" ELSE "createCRUDSimulationJobAsync"

\* The branch `if (!this.simulationMode)` of processCRUDApiJobAsync.
ProcessBatchMethod ==
    IF ~simulationMode THEN "processCRUDApiBatchAsync" ELSE "processCRUDSimulationBatchAsync"

\* getSourceRecordsArray(records) in simulation mode: the records themselves.
GetSourceRecordsArray(records) == records

\* getResultRecordsArray(records) in simulation mode: the records themselves
\* (for Delete without the internal id field, which is not modelled).
GetResultRecordsArray(records) == records

\* processCRUDSimulationBatchAsync(csvChunk): with Insert and updateRecordId
\* every record gets a made-up Id; the result is the chunk's records.
SimulationBatchResult(records) ==
    GetResultRecordsArray(
        IF operation = "Insert" /\ updateRecordId
        THEN [i \in 1..Len(records) |-> [records[i] EXCEPT !.Id = "made"]]
        ELSE records)

\* What a batch of the real API returns for a chunk it has processed: the
\* records, those inserted with the Id the org gave them.
ApiBatchResult(records) ==
    IF operation = "Insert"
    THEN [i \in 1..Len(records) |-> [records[i] EXCEPT !.Id = "org"]]
    ELSE records

\* Mutant: the file is written whether or not createTargetCSVFiles is set.
WriteToTargetCSVFile_Always(records) == Append(targetCsvWrites, records)

\* writeToTargetCSVFileAsync(records): if (this.createTargetCSVFiles) write.
WriteToTargetCSVFile(records) ==
    IF createTargetCSVFiles THEN Append(targetCsvWrites, records) ELSE targetCsvWrites

\* executeCRUD(allRecords, progressCallback) is called: the old name is kept,
\* the records are mapped and sObjectName becomes the mapped name.
ExecuteCRUD ==
    /\ epc = "idle"
    /\ oldSObjectName' = sObjectName
    /\ sObjectName' = targetSObjectName
    /\ engineCalls' = Append(engineCalls, "executeCRUD")
    /\ epc' = "create"
    /\ UNCHANGED <<simulationMode, createTargetCSVFiles, operation, updateRecordId,
                   targetSObjectName, crudRecords, chunks, chunkIndex, allResultRecords,
                   crudResult, targetCsvWrites>>
    /\ UNCHANGED <<setupVars, updateVars, retrieveVars, csvVars, loopVars>>

\* await this.createCRUDApiJobAsync(allRecords) of an engine that overrides
\* it: the job is created with the records in chunks, and
\* processCRUDApiJobAsync begins (allResultRecords = [], index = 0).
CreateCRUDApiJobAsync ==
    /\ epc = "create"
    /\ CreateJobMethod = "createCRUDApiJobAsync"
    /\ \E size \in 1..Max(1, Len(crudRecords)) : chunks' = Chunked(crudRecords, size)
    /\ engineCalls' = Append(engineCalls, "createCRUDApiJobAsync")
    /\ allResultRecords' = <<>>
    /\ chunkIndex' = 0
    /\ epc' = "process"
    /\ UNCHANGED <<simulationMode, createTargetCSVFiles, operation, updateRecordId,
                   targetSObjectName, crudRecords, sObjectName, oldSObjectName,
                   crudResult, targetCsvWrites>>
    /\ UNCHANGED <<setupVars, updateVars, retrieveVars, csvVars, loopVars>>

\* createCRUDApiJobAsync throws, or leaves apiJobCreateResult unset as the
\* method of the base class does, so that processCRUDApiJobAsync throws on
\* its first read: the exception leaves executeCRUD.
CreateCRUDApiJobThrows ==
    /\ epc = "create"
    /\ CreateJobMethod = "createCRUDApiJobAsync"
    /\ engineCalls' = Append(engineCalls, "createCRUDApiJobAsync")
    /\ epc' = "failed"
    /\ UNCHANGED <<simulationMode, createTargetCSVFiles, operation, updateRecordId,
                   targetSObjectName, crudRecords, sObjectName, oldSObjectName, chunks,
                   chunkIndex, allResultRecords, crudResult, targetCsvWrites>>
    /\ UNCHANGED <<setupVars, updateVars, retrieveVars, csvVars, loopVars>>

\* await this.createCRUDSimulationJobAsync(allRecords): the job holds one
\* chunk with all the records; CsvChunks.fromArrayChunks throws on an empty
\* list.
CreateCRUDSimulationJobAsync ==
    /\ epc = "create"
    /\ CreateJobMethod = "createCRUDSimulationJobAsync"
    /\ engineCalls' = Append(engineCalls, "createCRUDSimulationJobAsync")
    /\ IF GetSourceRecordsArray(crudRecords) = <<>>
       THEN /\ epc' = "failed"
            /\ UNCHANGED chunks
       ELSE /\ chunks' = FromArray(GetSourceRecordsArray(crudRecords))
            /\ epc' = "process"
    /\ allResultRecords' = <<>>
    /\ chunkIndex' = 0
    /\ UNCHANGED <<simulationMode, createTargetCSVFiles, operation, updateRecordId,
                   targetSObjectName, crudRecords, sObjectName, oldSObjectName,
                   crudResult, targetCsvWrites>>
    /\ UNCHANGED <<setupVars, updateVars, retrieveVars, csvVars, loopVars>>

\* One iteration of processCRUDApiJobAsync outside simulation mode, the batch
\* returning records: allResultRecords = allResultRecords.concat(resultRecords).
ProcessCRUDApiBatchAsync ==
    /\ epc = "process"
    /\ chunkIndex < Len(chunks)
    /\ ProcessBatchMethod = "processCRUDApiBatchAsync"
    /\ engineCalls' = Append(engineCalls, "processCRUDApiBatchAsync")
    /\ allResultRecords' = allResultRecords \o ApiBatchResult(chunks[chunkIndex + 1])
    /\ chunkIndex' = chunkIndex + 1
    /\ UNCHANGED <<epc, simulationMode, createTargetCSVFiles, operation, updateRecordId,
                   targetSObjectName, crudRecords, sObjectName, oldSObjectName, chunks,
                   crudResult, targetCsvWrites>>
    /\ UNCHANGED <<setupVars, updateVars, retrieveVars, csvVars, loopVars>>

\* Mutant: a batch without a result is skipped and the loop goes on with the
\* next chunk.
ProcessCRUDApiBatchReturnsNull_GoesOn ==
    /\ epc = "process"
    /\ chunkIndex < Len(chunks)
    /\ ProcessBatchMethod = "processCRUDApiBatchAsync"
    /\ engineCalls' = Append(engineCalls, "processCRUDApiBatchAsync")
    /\ chunkIndex' = chunkIndex + 1
    /\ UNCHANGED <<epc, simulationMode, createTargetCSVFiles, operation, updateRecordId,
                   targetSObjectName, crudRecords, sObjectName, oldSObjectName, chunks,
                   allResultRecords, crudResult, targetCsvWrites>>
    /\ UNCHANGED <<setupVars, updateVars, retrieveVars, csvVars, loopVars>>

\* The batch returns no result (null, as the method of the base class does):
\* an empty list is written to the target file, processCRUDApiJobAsync
\* returns null, and executeCRUD restores sObjectName and returns null.
ProcessCRUDApiBatchReturnsNull ==
    /\ epc = "process"
    /\ chunkIndex < Len(chunks)
    /\ ProcessBatchMethod = "processCRUDApiBatchAsync"
    /\ engineCalls' = Append(engineCalls, "processCRUDApiBatchAsync")
    /\ targetCsvWrites' = WriteToTargetCSVFile(<<>>)
    /\ crudResult' = [returned |-> "null", records |-> <<>>]
    /\ sObjectName' = oldSObjectName
    /\ epc' = "done"
    /\ UNCHANGED <<simulationMode, createTargetCSVFiles, operation, updateRecordId,
                   targetSObjectName, crudRecords, oldSObjectName, chunks, chunkIndex,
                   allResultRecords>>
    /\ UNCHANGED <<setupVars, updateVars, retrieveVars, csvVars, loopVars>>

\* The batch throws: the exception leaves processCRUDApiJobAsync and executeCRUD.
ProcessCRUDApiBatchThrows ==
    /\ epc = "process"
    /\ chunkIndex < Len(chunks)
    /\ ProcessBatchMethod = "processCRUDApiBatchAsync"
    /\ engineCalls' = Append(engineCalls, "processCRUDApiBatchAsync")
    /\ epc' = "failed"
    /\ UNCHANGED <<simulationMode, createTargetCSVFiles, operation, updateRecordId,
                   targetSObjectName, crudRecords, sObjectName, oldSObjectName, chunks,
                   chunkIndex, allResultRecords, crudResult, targetCsvWrites>>
    /\ UNCHANGED <<setupVars, updateVars, retrieveVars, csvVars, loopVars>>

\* One iteration of processCRUDApiJobAsync in simulation mode.
ProcessCRUDSimulationBatchAsync ==
    /\ epc = "process"
    /\ chunkIndex < Len(chunks)
    /\ ProcessBatchMethod = "processCRUDSimulationBatchAsync"
    /\ engineCalls' = Append(engineCalls, "processCRUDSimulationBatchAsync")
    /\ allResultRecords' = allResultRecords \o SimulationBatchResult(chunks[chunkIndex + 1])
    /\ chunkIndex' = chunkIndex + 1
    /\ UNCHANGED <<epc, simulationMode, createTargetCSVFiles, operation, updateRecordId,
                   targetSObjectName, crudRecords, sObjectName, oldSObjectName, chunks,
                   crudResult, targetCsvWrites>>
    /\ UNCHANGED <<setupVars, updateVars, retrieveVars, csvVars, loopVars>>

\* The loop over the chunks is over: allResultRecords is written to the target
\* file and returned, and executeCRUD restores sObjectName and returns it.
ProcessCRUDApiJobReturns ==
    /\ epc = "process"
    /\ chunkIndex = Len(chunks)
    /\ targetCsvWrites' = WriteToTargetCSVFile(allResultRecords)
    /\ crudResult' = [returned |-> "records", records |-> allResultRecords]
    /\ sObjectName' = oldSObjectName
    /\ epc' = "done"
    /\ UNCHANGED <<simulationMode, createTargetCSVFiles, operation, updateRecordId,
                   targetSObjectName, crudRecords, oldSObjectName, chunks, chunkIndex,
                   allResultRecords, engineCalls>>
    /\ UNCHANGED <<setupVars, updateVars, retrieveVars, csvVars, loopVars>>

\* ----------------------------------------------------- specifications ----
\* setup() on every descriptor set of NumObjects descriptors with at most
\* MaxEdges declared relationships.  The descriptors are supplied in the order
\* 1, 2, ..., NumObjects; as the kinds and the relationships range over every
\* assignment, every supply order of every such set is covered.
Init ==
    /\ \E kinds \in KindAssignments, edges \in EdgeSetsUpTo(RelationEdges, MaxEdges) :
           objects = Descriptors(kinds, edges, NoFlags, NoFlags)
    /\ SetupStart
    /\ UpdateIdle
    /\ targetMedia = "Org"
    /\ promptOnMissingParentObjects = FALSE
    /\ RetrieveIdle
    /\ LoopsIdle
    /\ EngineIdle
    /\ NoEngine
    /\ CsvIdle
    /\ NoCsvSource

Next ==
    \/ InsertObject
    \/ BeginFixup
    \/ CallPutMasterDetailsBefore
    \/ PassWithoutMove
    \/ ExitFixup
    \/ PassMove
    \/ PassReturn
    \/ CreateQueryTaskOrder

Spec == Init /\ [][Next]_vars

\* setup() runs to its end whenever it can take a step.
FairSpec == Spec /\ WF_vars(Next)

\* setup() on normal descriptors with master-detail edges only, whose
\* allRecords and isLimitedQuery traits range over every assignment.
InitQuery ==
    /\ \E edges \in EdgeSetsUpTo(MasterDetailEdges, MaxEdges),
          allRecords \in [Objects -> BOOLEAN], limited \in [Objects -> BOOLEAN] :
           objects = Descriptors([o \in Objects |-> "normal"], edges, allRecords, limited)
    /\ SetupStart
    /\ UpdateIdle
    /\ targetMedia = "Org"
    /\ promptOnMissingParentObjects = FALSE
    /\ RetrieveIdle
    /\ LoopsIdle
    /\ EngineIdle
    /\ NoEngine
    /\ CsvIdle
    /\ NoCsvSource

SpecQuery == InitQuery /\ [][Next]_vars

\* The children 1 .. NumObjects - 1 all have the master-detail parent
\* NumObjects, supplied last: the fix-up loop swaps in each of its 10 passes
\* and setup() runs to its end.
StarEdges == {<<"masterDetail", c, NumObjects>> : c \in 1..(NumObjects - 1)}

\* setup() on normal descriptors with at most MaxTraits traits set among them,
\* without relationships or with the relationships of StarEdges.
InitTraits ==
    /\ \E edges \in {{}, StarEdges}, traits \in EdgeSetsUpTo(Objects \X Traits, MaxTraits) :
           objects = DescriptorsWithTraits([o \in Objects |-> "normal"], edges, traits)
    /\ SetupStart
    /\ UpdateIdle
    /\ targetMedia = "Org"
    /\ promptOnMissingParentObjects = FALSE
    /\ RetrieveIdle
    /\ LoopsIdle
    /\ EngineIdle
    /\ NoEngine
    /\ CsvIdle
    /\ NoCsvSource

SpecTraits == InitTraits /\ [][Next]_vars

\* The state in which setup() ends for the descriptors of which every one but
\* the last declares the last one as its master-detail parent: each fix-up
\* pass moves the parent forth and back, so every pass reports a swap, the
\* loop is left after FixupIterations passes and tasks is <<1, ..., NumObjects>>.
SetupCompleted ==
    /\ objects = Descriptors([o \in Objects |-> "normal"],
                     {<<"masterDetail", c, NumObjects>> : c \in 1..(NumObjects - 1)},
                     NoFlags, NoFlags)
    /\ processAllSource = [o \in Objects |-> FALSE]
    /\ processAllTarget = [o \in Objects |-> FALSE]
    /\ tasks = [i \in 1..NumObjects |-> i]
    /\ queryTasks = tasks
    /\ lowerIndexForAnyObjects = 0
    /\ lowerIndexForReadonlyObjects = 0
    /\ objectIndex = NumObjects
    /\ pc = "done"
    /\ iteration = FixupIterations
    /\ swapped = TRUE
    /\ tempTasks = tasks
    /\ leftIndex = NumObjects - 1
    /\ rightIndex = NumObjects
    /\ passSwapped = TRUE

\* updateRecords() of a job whose setup() has completed, for either target
\* medium and either setting of promptOnMissingParentObjects.
InitUpdate ==
    /\ SetupCompleted
    /\ UpdateIdle
    /\ targetMedia \in {"Org", "File"}
    /\ promptOnMissingParentObjects \in BOOLEAN
    /\ RetrieveIdle
    /\ LoopsIdle
    /\ EngineIdle
    /\ NoEngine
    /\ CsvIdle
    /\ NoCsvSource

NextUpdate ==
    \/ StartUpdateRecords
    \/ CallTaskUpdateRecords
    \/ CallbackWarns
    \/ CallbackPromptsAndContinues
    \/ CallbackPromptsAndAborts
    \/ TaskUpdateRecordsReturns
    \/ StartBackwardPass
    \/ SaveMissingParentLookups

SpecUpdate == InitUpdate /\ [][NextUpdate]_vars

\* The state in which setup() ends for the descriptors of SetupCompleted with
\* the given allRecords and isLimitedQuery traits: the traits decide
\* processAllSource, processAllTarget and the query order only.
SetupCompletedWith(allRecords, limited) ==
    /\ objects = Descriptors([o \in Objects |-> "normal"],
                     {<<"masterDetail", c, NumObjects>> : c \in 1..(NumObjects - 1)},
                     allRecords, limited)
    /\ processAllSource = allRecords
    /\ processAllTarget = allRecords
    /\ tasks = [i \in 1..NumObjects |-> i]
    /\ queryTasks = PushRemaining(tasks, PushFetchAll(tasks, <<>>))
    /\ lowerIndexForAnyObjects = 0
    /\ lowerIndexForReadonlyObjects = 0
    /\ objectIndex = NumObjects
    /\ pc = "done"
    /\ iteration = FixupIterations
    /\ swapped = TRUE
    /\ tempTasks = tasks
    /\ leftIndex = NumObjects - 1
    /\ rightIndex = NumObjects
    /\ passSwapped = TRUE

\* retrieveRecords() of a job whose setup() has completed, for every
\* assignment of the allRecords and isLimitedQuery traits.
InitRetrieve ==
    /\ \E allRecords \in [Objects -> BOOLEAN], limited \in [Objects -> BOOLEAN] :
           SetupCompletedWith(allRecords, limited)
    /\ UpdateIdle
    /\ targetMedia = "Org"
    /\ promptOnMissingParentObjects = FALSE
    /\ RetrieveIdle
    /\ LoopsIdle
    /\ EngineIdle
    /\ NoEngine
    /\ CsvIdle
    /\ NoCsvSource

NextRetrieve ==
    \/ StartRetrieveRecords
    \/ CallTaskRetrieveRecords
    \/ NextRetrievePass
    \/ FinishRetrieveRecords

SpecRetrieve == InitRetrieve /\ [][NextRetrieve]_vars

\* validateCSVFiles() of a job whose setup() has completed, for either source
\* medium and every setting of importCSVFilesAsIs, validateCSVFilesOnly and
\* promptOnIssuesInCSVFiles.
InitCsv ==
    /\ SetupCompleted
    /\ UpdateIdle
    /\ targetMedia = "Org"
    /\ promptOnMissingParentObjects = FALSE
    /\ RetrieveIdle
    /\ LoopsIdle
    /\ EngineIdle
    /\ NoEngine
    /\ CsvIdle
    /\ sourceMedia \in {"Org", "File"}
    /\ importCSVFilesAsIs \in BOOLEAN
    /\ validateCSVFilesOnly \in BOOLEAN
    /\ promptOnIssuesInCSVFiles \in BOOLEAN

NextCsv ==
    \/ StartValidateCSVFiles
    \/ CopyCSVFilesToSourceSubDir
    \/ ValidateCSV
    \/ ValidationWithoutIssues
    \/ ValidationPromptContinues
    \/ ValidationPromptAborts
    \/ RepairCSV
    \/ SaveCachedCsvDataFiles
    \/ NoIssuesFound
    \/ RepairPromptContinues
    \/ RepairPromptAborts
    \/ RepairWarnsAndSaves
    \/ FinishValidateCSVFiles

SpecCsv == InitCsv /\ [][NextCsv]_vars

\* The operations of the cache and saveCachedCsvDataFiles() called in any
\* order, at most MaxCacheOps steps.
InitCache ==
    /\ SetupCompleted
    /\ UpdateIdle
    /\ targetMedia = "Org"
    /\ promptOnMissingParentObjects = FALSE
    /\ RetrieveIdle
    /\ LoopsIdle
    /\ EngineIdle
    /\ NoEngine
    /\ CsvIdle
    /\ NoCsvSource

NextCache ==
    \/ CacheReadFile
    \/ CacheAddMissingId
    \/ CacheSave
    \/ CacheClear

SpecCache == InitCache /\ [][NextCache]_vars

\* A job set to prompt, with a file source and an org target, that runs
\* either validateCSVFiles() or updateRecords().
InitAbort ==
    /\ SetupCompleted
    /\ UpdateIdle
    /\ targetMedia = "Org"
    /\ promptOnMissingParentObjects = TRUE
    /\ RetrieveIdle
    /\ LoopsIdle
    /\ EngineIdle
    /\ NoEngine
    /\ CsvIdle
    /\ sourceMedia = "File"
    /\ importCSVFilesAsIs = FALSE
    /\ validateCSVFilesOnly = FALSE
    /\ promptOnIssuesInCSVFiles = TRUE

NextAbort ==
    \/ NextUpdate
    \/ NextCsv

SpecAbort == InitAbort /\ [][NextAbort]_vars

\* getTotalRecordsCount() and deleteOldRecords() of a job whose setup() has
\* completed.
InitLoops ==
    /\ \E allRecords \in [Objects -> BOOLEAN], limited \in [Objects -> BOOLEAN] :
           SetupCompletedWith(allRecords, limited)
    /\ UpdateIdle
    /\ targetMedia = "Org"
    /\ promptOnMissingParentObjects = FALSE
    /\ RetrieveIdle
    /\ LoopsIdle
    /\ EngineIdle
    /\ NoEngine
    /\ CsvIdle
    /\ NoCsvSource

NextLoops ==
    \/ StartGetTotalRecordsCount
    \/ GetTotalRecordsCountAsync
    \/ FinishGetTotalRecordsCount
    \/ StartDeleteOldRecords
    \/ DeleteOldTargetRecords
    \/ FinishDeleteOldRecords

SpecLoops == InitLoops /\ [][NextLoops]_vars

\* One executeCRUD() call of an engine, for every setting of the engine and
\* every list of up to MaxRecords records.
InitEngine ==
    /\ SetupCompletedWith(NoFlags, NoFlags)
    /\ UpdateIdle
    /\ targetMedia = "Org"
    /\ promptOnMissingParentObjects = FALSE
    /\ RetrieveIdle
    /\ LoopsIdle
    /\ CsvIdle
    /\ NoCsvSource
    /\ EngineIdle
    /\ simulationMode \in BOOLEAN
    /\ createTargetCSVFiles \in BOOLEAN
    /\ operation \in {"Insert", "Update", "Delete"}
    /\ updateRecordId \in BOOLEAN
    /\ targetSObjectName \in {"Account", "Account__mapped"}
    /\ \E n \in 0..MaxRecords : crudRecords = SourceRecords(n, operation)

NextEngine ==
    \/ ExecuteCRUD
    \/ CreateCRUDApiJobAsync
    \/ CreateCRUDApiJobThrows
    \/ CreateCRUDSimulationJobAsync
    \/ ProcessCRUDApiBatchAsync
    \/ ProcessCRUDApiBatchReturnsNull
    \/ ProcessCRUDApiBatchThrows
    \/ ProcessCRUDSimulationBatchAsync
    \/ ProcessCRUDApiJobReturns

SpecEngine == InitEngine /\ [][NextEngine]_vars

\* --------------------------------------------------- claim vocabulary ----
ParentsOf(kind, o) ==
    IF kind = "lookup" THEN objects[o].parentLookupObjects
    ELSE objects[o].parentMasterDetailObjects

RECURSIVE AncestorClosure(_, _, _)
AncestorClosure(kind, S, n) ==
    IF n = 0 THEN S
    ELSE AncestorClosure(kind, S \cup UNION {ParentsOf(kind, o) : o \in S}, n - 1)

\* The direct and transitive parents of o along the edges of one kind.
Ancestors(kind, o) == AncestorClosure(kind, ParentsOf(kind, o), NumObjects)

Acyclic(kind) == \A o \in Objects : o \notin Ancestors(kind, o)

IsSpecial(o) == objects[o].isRecordType

IsReadonly(o) == ~objects[o].isRecordType /\ objects[o].isReadonlyObject

IsNormal(o) == ~objects[o].isRecordType /\ ~objects[o].isReadonlyObject

\* tasks has the value setup() leaves in it: the fix-up loop is over, or its
\* last pass reported no swap (a pass that finds nothing to move leaves tasks
\* as it is, and so does every pass after it).
TasksFinal == pc \in {"query", "done"} \/ (pc = "fixup" /\ iteration > 0 /\ ~swapped)

FetchesFirst(t) == processAllSource[t] \/ objects[t].isLimitedQuery

\* ------------------------------------------------------------- claims ----
\* C1: after setup() completes, for an acyclic master-detail graph every
\* master-detail parent is at a strictly lower index in tasks than each of
\* its direct and transitive master-detail children.
C1_MasterDetailParentsFirst ==
    (pc = "done" /\ Acyclic("masterDetail")) =>
        \A c \in Objects : \A p \in Ancestors("masterDetail", c) :
            IndexOf(tasks, p) < IndexOf(tasks, c)

\* C2: setup() terminates for every descriptor set: the fix-up loop ends
\* after a bounded number of passes, whether a pass makes no swap or every
\* pass swaps.
C2_SetupTerminates == <>(pc = "done")

\* C3: for A (no parents), B (lookup parent A) and C (master-detail parent B)
\* supplied in the order [C, A, B], i.e. C = 1, A = 2, B = 3, the resulting
\* tasks list is exactly [A, B, C].
C3_ExampleInput ==
    /\ \A o \in Objects : IsNormal(o)
    /\ NumObjects = 3
    /\ ParentsOf("lookup", 1) = {} /\ ParentsOf("masterDetail", 1) = {3}
    /\ ParentsOf("lookup", 2) = {} /\ ParentsOf("masterDetail", 2) = {}
    /\ ParentsOf("lookup", 3) = {2} /\ ParentsOf("masterDetail", 3) = {}

C3_ExampleOrder == (C3_ExampleInput /\ TasksFinal) => tasks = <<2, 3, 1>>

\* C4: after setup() completes the RecordType task, if present, is at index
\* 0 of tasks and every readonly task is at a lower index than every task
\* that is neither special nor readonly.
C4_ZonesKept ==
    pc = "done" =>
        /\ \A o \in Objects : IsSpecial(o) => IndexOf(tasks, o) = 0
        /\ \A r, n \in Objects :
               IsReadonly(r) /\ IsNormal(n) => IndexOf(tasks, r) < IndexOf(tasks, n)

\* C5: after every step of setup() tasks holds no task twice (it holds the
\* descriptors visited so far, each once), and when setup() completes it holds
\* exactly one task per supplied descriptor.
C5_NoTaskLostOrDuplicated ==
    /\ Len(tasks) = objectIndex
    /\ Range(tasks) = 1..objectIndex
    /\ pc = "done" => Len(tasks) = NumObjects /\ Range(tasks) = Objects

\* C5 witness: setup() has completed after fix-up passes that moved tasks.
C5_Witness ==
    /\ pc = "done"
    /\ passSwapped
    /\ iteration = FixupIterations
    /\ Len(tasks) = NumObjects

\* C6: after setup() queryTasks is a permutation of tasks in which every
\* task that fetches all source records or is a limited query comes before
\* every other task, and inside each of the two groups the tasks keep the
\* relative order they have in tasks.
C6_QueryOrder ==
    pc = "done" =>
        /\ Len(queryTasks) = Len(tasks)
        /\ Range(queryTasks) = Range(tasks)
        /\ \A i, j \in 1..Len(queryTasks) :
               i < j /\ FetchesFirst(queryTasks[j]) => FetchesFirst(queryTasks[i])
        /\ \A a, b \in Range(tasks) :
               FetchesFirst(a) = FetchesFirst(b) =>
                   (IndexOf(queryTasks, a) < IndexOf(queryTasks, b)
                        <=> IndexOf(tasks, a) < IndexOf(tasks, b))

\* C6 witness: setup() has completed and a fetch-all task that follows two
\* other tasks in tasks has been moved to the head of queryTasks.
C6_Witness ==
    /\ pc = "done"
    /\ \E a, b, c \in Objects :
           /\ IndexOf(tasks, a) < IndexOf(tasks, b)
           /\ IndexOf(tasks, b) < IndexOf(tasks, c)
           /\ ~FetchesFirst(a) /\ ~FetchesFirst(b) /\ FetchesFirst(c)
           /\ queryTasks[1] = c

\* C7: for normal descriptors with no master-detail edge and an acyclic
\* lookup graph, every lookup parent is at a lower index in tasks than every
\* descriptor that lists it in parentLookupObjects.
C7_LookupParentsFirst ==
    (/\ \A o \in Objects : IsNormal(o) /\ ParentsOf("masterDetail", o) = {}
     /\ Acyclic("lookup")
     /\ TasksFinal) =>
        \A c \in Objects : \A p \in ParentsOf("lookup", c) :
            IndexOf(tasks, p) < IndexOf(tasks, c)

\* C8: during one call of updateRecords() Common.abortWithPrompt is invoked
\* at most once: on the first invocation of the callback; every later
\* invocation only warns.
C8_PromptAtMostOnce ==
    /\ abortPrompts = (IF callbackCalls > 0 THEN 1 ELSE 0)
    /\ warnings = callbackCalls - abortPrompts

\* C8 witness: a run with both passes has ended in which the callback was
\* invoked more often than one pass has tasks.
C8_Witness ==
    /\ upc = "done"
    /\ mode = "backwards"
    /\ callbackCalls > NumObjects
    /\ abortPrompts = 1

\* C9: the missing-lookup list that updateRecords() persists holds every row
\* of every list handed to the callback, in the order reported, nothing
\* dropped and nothing deduplicated.
C9_ReportHasEveryRow ==
    upc \in {"done", "aborted"} =>
        /\ writes # <<>>
        /\ writes[Len(writes)] = reported

\* C9 witness: in the forward pass task 1 reported 2 rows and task 2 then
\* reported 3 rows; the prompt fired once and all 5 rows were persisted.
C9_Witness ==
    /\ upc = "done"
    /\ targetMedia = "File"
    /\ reported = <<<<1, 1>>, <<1, 2>>, <<2, 1>>, <<2, 2>>, <<2, 3>>>>
    /\ abortPrompts = 1
    /\ writes = <<reported>>

\* C10: a run of updateRecords() that has ended, normally or by an abort at
\* the prompt, has written the report file exactly once, with all rows
\* accumulated; a run that is still going on has not written it.
C10_ReportWrittenOnce ==
    IF upc \in {"done", "aborted"}
    THEN Len(writes) = 1 /\ writes[1] = allMissingParentLookups
    ELSE writes = <<>>

\* C10 witness: the prompt was answered with no in the middle of a pass, after
\* earlier tasks had been updated, and the rows reported were written.
C10_Witness ==
    /\ upc = "aborted"
    /\ index > 0
    /\ Len(writes) = 1
    /\ writes[1] # <<>>

\* ------------------------------------ claim vocabulary: validateCSVFiles ----
\* The positions of the steps of the given kind in csvLog.
EventsOf(ev) == {i \in 1..Len(csvLog) : csvLog[i].ev = ev}

CountOf(ev) == Cardinality(EventsOf(ev))

\* The tasks of the steps of the given kind, in the order of the steps.
TasksOf(ev) ==
    LET steps == SelectSeq(csvLog, LAMBDA e : e.ev = ev)
    IN  [i \in 1..Len(steps) |-> steps[i].arg]

\* _validateAndRepairSourceCSVFiles() has been called and has ended, by
\* returning or by the job-abort condition.
ValidateAndRepairEnded ==
    \/ cpc \in {"validated", "successExit", "aborted"}
    \/ cpc = "done" /\ sourceMedia = "File" /\ ~importCSVFilesAsIs

\* _validateAndRepairSourceCSVFiles() has returned.
ValidateAndRepairReturned ==
    \/ cpc \in {"validated", "successExit"}
    \/ cpc = "done" /\ sourceMedia = "File" /\ ~importCSVFilesAsIs

IssuesFrom(phase) == SelectSeq(csvIssues, LAMBDA issue : issue[2] = phase)

\* Id a comes before id b in the order of strings (same prefix, digit
\* sequences compared from the left).
IdBefore(a, b) ==
    /\ a.prefix = b.prefix
    /\ Len(a.digits) = Len(b.digits)
    /\ \E k \in 1..Len(a.digits) :
           /\ a.digits[k] < b.digits[k]
           /\ \A m \in 1..(k - 1) : a.digits[m] = b.digits[m]

\* C11: when _validateAndRepairSourceCSVFiles() has ended with at least one
\* issue collected, by validation or by repair, the issue report has been
\* written exactly once and holds all the issues collected.
C11_IssueReportWritten ==
    (ValidateAndRepairEnded /\ Len(csvIssues) > 0) => issueWrites = <<csvIssues>>

\* C12: one run of _validateAndRepairSourceCSVFiles() invokes the abort prompt
\* at most once: after the validation of all tasks and before any repair if
\* validation found issues; after the flush if only repair found issues; and
\* when validation has prompted, the step after repair saves the report and
\* warns without a prompt.
C12_CsvPromptAtMostOnce ==
    LET prompts == EventsOf("abortWithPrompt")
        validationFoundIssues == Len(IssuesFrom("validateCSV")) > 0
    IN  /\ Cardinality(prompts) <= 1
        /\ \A p \in prompts :
               IF validationFoundIssues
               THEN /\ CountOf("validateCSV") = Len(tasks)
                    /\ \A i \in EventsOf("validateCSV") : i < p
                    /\ \A i \in EventsOf("repairCSV") : p < i
               ELSE /\ Len(csvIssues) > 0
                    /\ \E i \in EventsOf("save") : i < p
        /\ (validationFoundIssues /\ cpc \in {"repair", "flushed"})
               => Cardinality(prompts) = 1
        /\ (validationFoundIssues /\ ValidateAndRepairReturned)
               => /\ Cardinality(prompts) = 1
                  /\ CountOf("warn") = 1
                  /\ issueWrites = <<csvIssues>>
        /\ (~validationFoundIssues /\ Len(csvIssues) > 0 /\ ValidateAndRepairEnded)
               => Cardinality(prompts) = 1

\* C12 witness: validation found an issue and prompted, the job continued,
\* repair found another issue, and the step after repair warned and saved.
C12_Witness ==
    /\ cpc = "validated"
    /\ Len(IssuesFrom("validateCSV")) > 0
    /\ Len(IssuesFrom("repairCSV")) > 0
    /\ CountOf("abortWithPrompt") = 1
    /\ CountOf("warn") = 1

\* C13: within one run idCounter never goes back (it stands one above the
\* number of ids handed out) and the ids that nextId has returned are strictly
\* increasing, hence pairwise distinct.
C13_IdsIncrease ==
    /\ idCounter = Len(issuedIds) + 1
    /\ \A i \in 1..Len(issuedIds) : \A j \in (i + 1)..Len(issuedIds) :
           IdBefore(issuedIds[i], issuedIds[j])

\* C14: the flush of saveCachedCsvDataFiles() writes exactly the paths in
\* updatedFilenames, each once and with all the rows cached for it, and no
\* cached path outside updatedFilenames.
C14_FlushWritesDirtyPaths ==
    cpc \in {"flushed", "validated", "successExit"} =>
        /\ {fileWrites[i][1] : i \in 1..Len(fileWrites)} = updatedFilenames
        /\ Len(fileWrites) = Cardinality(updatedFilenames)
        /\ \A i \in 1..Len(fileWrites) :
               \E j \in 1..Len(csvDataCacheMap) : csvDataCacheMap[j] = fileWrites[i]

\* C14 witness: the flush has written a file that repair gave an id, and has
\* left alone a file that is cached but was not changed.
C14_Witness ==
    /\ cpc = "flushed"
    /\ Len(fileWrites) > 0
    /\ \E j \in 1..Len(csvDataCacheMap) : csvDataCacheMap[j][1] \notin updatedFilenames

\* C15: a file is rewritten at most once per run: a file that a call of
\* saveCachedCsvDataFiles() has written is written again only after it was
\* marked as updated once more.
C15_NoRewrite ==
    \A j \in EventsOf("write") : \A i \in EventsOf("write") :
        (i < j /\ csvLog[i].arg = csvLog[j].arg) =>
            \E d \in EventsOf("dirty") : i < d /\ d < j /\ csvLog[d].arg = csvLog[j].arg

\* C16: retrieveRecords() makes its calls of task.retrieveRecords in six
\* passes - (forwards, false), (backwards, false), (backwards, false),
\* (forwards, true), (forwards, true), (target, false) - each pass over every
\* task of queryTasks once, in the order of queryTasks, whatever the earlier
\* calls returned; when it returns all six passes have been made.
C16_SixPasses ==
    LET n == Len(queryTasks)
        passes == << <<"forwards", FALSE>>, <<"backwards", FALSE>>, <<"backwards", FALSE>>,
                     <<"forwards", TRUE>>, <<"forwards", TRUE>>, <<"target", FALSE>> >>
    IN  /\ Len(retrieveCalls) <= 6 * n
        /\ \A k \in 1..Len(retrieveCalls) :
               retrieveCalls[k] = <<queryTasks[((k - 1) % n) + 1],
                                    passes[((k - 1) \div n) + 1][1],
                                    passes[((k - 1) \div n) + 1][2]>>
        /\ rpc = "done" => Len(retrieveCalls) = 6 * n

\* C16 witness: retrieveRecords() has returned for a query order that differs
\* from the execution order, and no task of the last pass returned records.
C16_Witness ==
    /\ rpc = "done"
    /\ queryTasks # tasks
    /\ ~retrieved
    /\ Len(retrieveCalls) = 6 * NumObjects

\* C17: updateRecords() calls task.updateRecords in forwards mode for every
\* task in ascending index order, and then, if and only if the target is an
\* org, in backwards mode for every task in the same order; with a file target
\* no call is made in backwards mode.
C17_ForwardThenBackward ==
    LET n == Len(tasks)
        forwards == [i \in 1..n |-> <<tasks[i], "forwards">>]
        backwards == [i \in 1..n |-> <<tasks[i], "backwards">>]
        both == forwards \o backwards
    IN  /\ Len(updateCalls) <= 2 * n
        /\ \A k \in 1..Len(updateCalls) : updateCalls[k] = both[k]
        /\ targetMedia # "Org" => Len(updateCalls) <= n
        /\ upc = "done" =>
               updateCalls = (IF targetMedia = "Org" THEN both ELSE forwards)

\* C17 witness: a run with an org target has ended after both passes.
C17_Witness ==
    /\ upc = "done"
    /\ targetMedia = "Org"
    /\ Len(updateCalls) = 2 * NumObjects
    /\ updateCalls[NumObjects + 1] = <<tasks[1], "backwards">>

\* C18: a negative answer to the abort prompt unwinds the operation.  In
\* validateCSVFiles() the only step after the answer is the report saved by
\* the before-abort hook: no validation, repair, flush or clear follows.  In
\* updateRecords() the task whose callback prompted is the last one updated, no
\* backward pass follows an abort in the forward pass, no cached file is
\* written and the report saved by the hook is the only write.
C18_AbortUnwinds ==
    /\ \A a \in EventsOf("answerNo") :
           /\ Len(csvLog) = a + 1
           /\ csvLog[a + 1].ev = "report"
           /\ cpc = "aborted"
    /\ cpc = "aborted" => CountOf("answerNo") = 1 /\ issueWrites = <<csvIssues>>
    /\ upc = "aborted" =>
           /\ Len(updateCalls) = index + 1 + (IF mode = "backwards" THEN Len(tasks) ELSE 0)
           /\ mode = "forwards" => \A k \in 1..Len(updateCalls) : updateCalls[k][2] = "forwards"
           /\ writes = <<allMissingParentLookups>>
           /\ fileWrites = <<>>

\* C18 witness: the prompt after validation was answered with no: the report
\* was saved and no task was repaired.
C18_Witness ==
    /\ cpc = "aborted"
    /\ CountOf("validateCSV") = NumObjects
    /\ CountOf("repairCSV") = 0
    /\ Len(issueWrites) = 1

\* C19: validateCSVFiles() ends with SuccessExit exactly when the source is a
\* file, validation is not skipped, validate-only mode is set and no prompt was
\* answered with no; SuccessExit comes after the validation and the repair of
\* every task and after the flush, it is the last step, and the cache is not
\* cleared.
C19_SuccessExit ==
    /\ cpc \in {"done", "aborted", "successExit"} =>
           (cpc = "successExit" <=>
                /\ sourceMedia = "File"
                /\ ~importCSVFilesAsIs
                /\ validateCSVFilesOnly
                /\ CountOf("answerNo") = 0)
    /\ CountOf("successExit") > 0 => cpc = "successExit"
    /\ cpc = "successExit" =>
           /\ TasksOf("validateCSV") = tasks
           /\ TasksOf("repairCSV") = tasks
           /\ CountOf("save") = 1
           /\ CountOf("clear") = 0
           /\ EventsOf("successExit") = {Len(csvLog)}
           /\ csvDataCacheMap # <<>>

\* C19 witness: validate-only mode ended with SuccessExit although issues
\* were found, the prompt having been passed.
C19_Witness ==
    /\ cpc = "successExit"
    /\ CountOf("abortWithPrompt") = 1
    /\ Len(csvIssues) > 0
    /\ Len(fileWrites) > 0

\* The place of a step of validateCSVFiles() in the order merge, load the
\* value mapping, snapshot, validate, repair, flush; 0 for the other steps.
StepRank(ev) ==
    CASE ev = "merge" -> 1
      [] ev = "loadMapping" -> 2
      [] ev = "copy" -> 3
      [] ev = "validateCSV" -> 4
      [] ev \in {"repairCSV", "dirty"} -> 5
      [] ev \in {"save", "write"} -> 6
      [] OTHER -> 0

\* C20: with a file source and validation not skipped the steps of
\* validateCSVFiles() come in the order merge, load the value mapping,
\* snapshot, validate, repair, flush: no step of a later kind precedes a step
\* of an earlier kind, and when the flush begins the files were merged, the
\* mapping was loaded, every existing file was copied, and every task was
\* validated and then repaired, each loop in the order of tasks.
C20_StepsInOrder ==
    (sourceMedia = "File" /\ ~importCSVFilesAsIs) =>
        /\ \A i \in 1..Len(csvLog) : \A j \in (i + 1)..Len(csvLog) :
               (StepRank(csvLog[i].ev) > 0 /\ StepRank(csvLog[j].ev) > 0)
                   => StepRank(csvLog[i].ev) <= StepRank(csvLog[j].ev)
        /\ CountOf("save") > 0 =>
               /\ CountOf("merge") = 1
               /\ CountOf("loadMapping") = 1
               /\ TasksOf("copy") = SelectSeq(tasks, LAMBDA t : t \in existingFiles)
               /\ TasksOf("validateCSV") = tasks
               /\ TasksOf("repairCSV") = tasks

\* C20 witness: the flush has rewritten a file of which a snapshot was taken,
\* while the file of another task did not exist.
C20_Witness ==
    /\ cpc = "flushed"
    /\ CountOf("write") > 0
    /\ CountOf("copy") = NumObjects - 1
    /\ \A w \in EventsOf("write") : \E c \in EventsOf("copy") : csvLog[c].arg = csvLog[w].arg

\* The i-th of the 16 decimal digits of k, written out digit by digit.
PaddedDigit(k, i) ==
    IF IdWidth - i > 8 THEN 0 ELSE (k \div (10 ^ (IdWidth - i))) % 10

\* The paths that task.repairCSV marked as updated, from the log.
PathsMarkedDirty == {csvLog[i].arg : i \in EventsOf("dirty")}

\* C21: on a cache that was not cleared since its construction the k-th id
\* of nextId is "ID" followed by k as 16 zero-padded decimal digits (the first
\* two are ID0000000000000001 and ID0000000000000002), the rows repaired
\* hold these ids in the order the rows were met, and the flush that follows
\* the repair rewrites the files that repair marked as updated and no other.
C21_FreshCacheIds ==
    CountOf("clear") = 0 =>
        /\ \A k \in 1..Len(issuedIds) :
               /\ issuedIds[k].prefix = "ID"
               /\ issuedIds[k].digits = [i \in 1..IdWidth |-> PaddedDigit(k, i)]
        /\ Len(issuedIds) >= 1 =>
               issuedIds[1].digits = <<0, 0, 0, 0, 0, 0, 0, 0, 0, 0, 0, 0, 0, 0, 0, 1>>
        /\ Len(issuedIds) >= 2 =>
               issuedIds[2].digits = <<0, 0, 0, 0, 0, 0, 0, 0, 0, 0, 0, 0, 0, 0, 0, 2>>
        /\ \A j \in 1..Len(csvDataCacheMap) :
               LET rows == csvDataCacheMap[j][2]
               IN  \A a \in 1..Len(rows) :
                       /\ \E k \in 1..Len(issuedIds) : issuedIds[k] = rows[a]
                       /\ \A b \in (a + 1)..Len(rows) : IdBefore(rows[a], rows[b])
        /\ cpc = "flushed" =>
               {fileWrites[i][1] : i \in 1..Len(fileWrites)} = PathsMarkedDirty

\* C21 witness: repair gave two rows their ids, the first ID...01 and the
\* second ID...02, and the flush rewrote their files and left alone a file
\* that was cached without a change.
C21_Witness ==
    /\ cpc = "flushed"
    /\ Len(issuedIds) = 2
    /\ Len(fileWrites) = Cardinality(PathsMarkedDirty)
    /\ \E j \in 1..Len(csvDataCacheMap) : csvDataCacheMap[j][1] \notin PathsMarkedDirty
    /\ \E i \in 1..Len(fileWrites) :
           fileWrites[i][2] = <<[prefix |-> "ID",
                                 digits |-> <<0, 0, 0, 0, 0, 0, 0, 0, 0, 0, 0, 0, 0, 0, 0, 2>>]>>

\* The pair of snapshot indexes on which the last move of the running pass
\* was made: the loop indexes stand one pair behind it.
MovedPair ==
    IF rightIndex = leftIndex + 1
    THEN <<leftIndex - 1, Len(tempTasks) - 1>>
    ELSE <<leftIndex, rightIndex - 1>>

\* C22: after a move of ___putMasterDetailsBefore for a pair (left, right) of
\* the snapshot the right task, a master-detail parent of the left one, sits
\* immediately before the left task in tasks, whatever the earlier moves of
\* the pass did to their positions.
C22_RightImmediatelyBeforeLeft ==
    (pc = "pass" /\ passSwapped) =>
        LET leftTask == tempTasks[MovedPair[1] + 1]
            rightTask == tempTasks[MovedPair[2] + 1]
        IN  /\ RightIsParentMasterDetailOfLeft(tempTasks, MovedPair[1], MovedPair[2])
            /\ IndexOf(tasks, rightTask) = IndexOf(tasks, leftTask) - 1

\* C23: the fix-up loop of setup() completes at most 10 calls of
\* ___putMasterDetailsBefore (iteration counts them), and once a call has
\* reported no swap no further call is begun or completed.
C23_FixupStopsWithoutSwap ==
    [][/\ iteration' <= FixupIterations
       /\ (pc = "fixup" /\ iteration > 0 /\ ~swapped)
              => (iteration' = iteration /\ pc' # "pass")]_vars

\* The 0-based indexes, not below lowerIndexForAnyObjects, of the placed tasks
\* that list the object in parentLookupObjects.
PlacedChildrenOf(o) ==
    {j \in lowerIndexForAnyObjects..(Len(tasks) - 1) :
        o \in objects[tasks[j + 1]].parentLookupObjects}

\* C24: an insertion of a normal entity into a non-empty tasks puts it at the
\* lowest index, not below lowerIndexForAnyObjects, of a placed task that
\* lists it in parentLookupObjects, or at the end if there is none; the tasks
\* placed before keep their relative order (tasks without the new entity is
\* the old tasks), so the entity is before every placed normal-zone child.
C24_InsertBeforeEarliestChild ==
    [][(pc = "insert" /\ objectIndex' = objectIndex + 1
            /\ IsNormal(objectIndex') /\ Len(tasks) > 0) =>
          LET id == objectIndex'
              at == IF PlacedChildrenOf(id) = {} THEN Len(tasks)
                    ELSE CHOOSE j \in PlacedChildrenOf(id) :
                             \A k \in PlacedChildrenOf(id) : j <= k
          IN  /\ tasks' = SubSeq(tasks, 1, at) \o <<id>> \o SubSeq(tasks, at + 1, Len(tasks))
              /\ SelectSeq(tasks', LAMBDA t : t # id) = tasks
              /\ \A j \in PlacedChildrenOf(id) :
                     IndexOf(tasks', id) < IndexOf(tasks', tasks[j + 1])]_vars

\* C24 witness: the third entity, a normal one that the two normal tasks
\* placed before both look up, was inserted in front of both.
C24_Witness ==
    /\ pc = "insert"
    /\ objectIndex = 3
    /\ \A o \in 1..3 : IsNormal(o)
    /\ 3 \in objects[1].parentLookupObjects
    /\ 3 \in objects[2].parentLookupObjects
    /\ tasks = <<3, 1, 2>>

\* The entities placed so far, in the order they were supplied.
Placed == 1..objectIndex

\* The zone of a task: 0 special (RecordType), 1 readonly, 2 any other.
ZoneOf(o) == IF IsSpecial(o) THEN 0 ELSE IF IsReadonly(o) THEN 1 ELSE 2

\* C25: after each insertion of the insertion loop tasks holds the entities
\* placed so far, the special (RecordType) ones first, then the readonly ones,
\* then the others; lowerIndexForReadonlyObjects is the number of special
\* tasks and lowerIndexForAnyObjects the number of special and readonly
\* tasks; where a special or readonly task stands depends on the kinds
\* alone: each newly placed one stands at the head of its zone.
C25_ZonesAfterEachInsertion ==
    pc = "insert" =>
        /\ Len(tasks) = objectIndex
        /\ Range(tasks) = Placed
        /\ \A i \in 1..Len(tasks) : \A j \in (i + 1)..Len(tasks) :
               ZoneOf(tasks[i]) <= ZoneOf(tasks[j])
        /\ lowerIndexForReadonlyObjects = Cardinality({o \in Placed : IsSpecial(o)})
        /\ lowerIndexForAnyObjects =
               Cardinality({o \in Placed : IsSpecial(o) \/ IsReadonly(o)})
        /\ \A i \in 1..Len(tasks) : \A j \in (i + 1)..Len(tasks) :
               (ZoneOf(tasks[i]) = ZoneOf(tasks[j]) /\ ZoneOf(tasks[i]) < 2)
                   => tasks[i] > tasks[j]

\* C25 witness: a normal, a readonly and the RecordType entity were supplied
\* in this order, and the list holds them in the opposite order.
C25_Witness ==
    /\ pc = "insert"
    /\ objectIndex = 3
    /\ IsNormal(1) /\ IsReadonly(2) /\ IsSpecial(3)
    /\ tasks = <<3, 2, 1>>
    /\ lowerIndexForReadonlyObjects = 1
    /\ lowerIndexForAnyObjects = 2

\* Some task of the list has one of its declared master-detail parents at a
\* higher index.
ParentBehindChild(ts) ==
    \E i \in 1..Len(ts) : \E j \in (i + 1)..Len(ts) :
        ts[j] \in objects[ts[i]].parentMasterDetailObjects

\* A call of ___putMasterDetailsBefore has returned: tempTasks is the list it
\* started with and swapped its result.
PutMasterDetailsBeforeReturned == pc = "fixup" /\ iteration > 0

\* C27: a call of ___putMasterDetailsBefore returns false exactly when the
\* list it started with had no task with a declared master-detail parent at a
\* higher index, and then tasks is unchanged; when it returns true, tasks is
\* a permutation of the list it started with.
C27_ReturnsFalseIffNothingToMove ==
    PutMasterDetailsBeforeReturned =>
        /\ ~swapped <=> ~ParentBehindChild(tempTasks)
        /\ ~swapped => tasks = tempTasks
        /\ swapped =>
               /\ Len(tasks) = Len(tempTasks)
               /\ \A o \in Objects :
                      Cardinality({i \in 1..Len(tasks) : tasks[i] = o})
                          = Cardinality({i \in 1..Len(tempTasks) : tempTasks[i] = o})

\* C27 witness: the second call has returned false on the list <<2, 1, 3>>,
\* which the first call, returning true, made of <<1, 2, 3>> by moving the
\* master-detail parent 2 before its child 1.
C27_Witness ==
    /\ PutMasterDetailsBeforeReturned
    /\ iteration = 2
    /\ ~swapped
    /\ \A o \in 1..3 : IsNormal(o) /\ objects[o].parentLookupObjects = {}
    /\ objects[1].parentMasterDetailObjects = {2}
    /\ tasks = <<2, 1, 3>>
    /\ tempTasks = tasks

\* Nothing of validation, repair, flush, prompt, cache clearing or SuccessExit
\* has happened: no such step is logged, no issue and no file was written, no
\* issue was collected and the cache is as it was constructed.
NothingValidated ==
    /\ \A i \in 1..Len(csvLog) : csvLog[i].ev \in {"merge", "loadMapping", "copy"}
    /\ csvIssues = <<>>
    /\ issueWrites = <<>>
    /\ fileWrites = <<>>
    /\ issuedIds = <<>>
    /\ CacheCleared
    /\ cpc \notin {"validate", "repair", "flushed", "validated", "aborted", "successExit"}

\* C28: with a source that is not a file validateCSVFiles() does nothing at
\* all (not even a merge, a mapping load or a snapshot, also in validate-only
\* mode); with a file source and importCSVFilesAsIs it merges, loads the
\* value mapping and takes the snapshot, and nothing else: no task is
\* validated or repaired, no file is flushed, no prompt is raised, the cache
\* is not cleared and SuccessExit is not raised.
C28_NothingWithoutValidation ==
    /\ sourceMedia # "File" => (csvLog = <<>> /\ NothingValidated)
    /\ (sourceMedia = "File" /\ importCSVFilesAsIs) =>
           /\ NothingValidated
           /\ cpc = "done" =>
                  csvLog = <<Event("merge", 0), Event("loadMapping", 0)>>
                               \o CopyEvents(tasks, existingFiles)

\* C28 witness: validateCSVFiles() has returned in validate-only mode with a
\* file source and importCSVFilesAsIs, after a snapshot of some file.
C28_Witness ==
    /\ cpc = "done"
    /\ sourceMedia = "File"
    /\ importCSVFilesAsIs
    /\ validateCSVFilesOnly
    /\ CountOf("copy") > 0
    /\ CountOf("merge") = 1

\* allRecords, special object or object without relationships.
FetchAllTrait(o) ==
    objects[o].allRecords \/ objects[o].isSpecialObject
        \/ objects[o].isObjectWithoutRelationships

ComplexOrAutonumberExternalId(o) ==
    objects[o].hasComplexExternalId \/ objects[o].hasAutonumberExternalId

\* C29: for every descriptor setup() has visited, processAllSource is true
\* iff the object has allRecords, is a special object or has no
\* relationships, and processAllTarget is true iff it has one of these traits
\* or a complex or autonumber external id; an object with a complex or
\* autonumber external id, none of the three traits and no limited query
\* stands in queryTasks behind every task that has one of the three traits or
\* a limited query (it is not in the head group), and behind every other task
\* that precedes it in tasks.
C29_FetchAllFlags ==
    /\ \A o \in 1..objectIndex :
           /\ processAllSource[o] <=> FetchAllTrait(o)
           /\ processAllTarget[o] <=> (FetchAllTrait(o) \/ ComplexOrAutonumberExternalId(o))
    /\ pc = "done" =>
           \A o \in Objects :
               (ComplexOrAutonumberExternalId(o) /\ ~FetchAllTrait(o)
                    /\ ~objects[o].isLimitedQuery) =>
                   \A t \in Objects \ {o} :
                       (FetchAllTrait(t) \/ objects[t].isLimitedQuery
                            \/ IndexOf(tasks, t) < IndexOf(tasks, o))
                           => IndexOf(queryTasks, t) < IndexOf(queryTasks, o)

\* C29 witness: setup() has completed; object 1 has only a complex external
\* id (processAllTarget without processAllSource) and object 2 allRecords, and
\* the query order puts 2 before 1.
C29_Witness ==
    /\ pc = "done"
    /\ objects[1].hasComplexExternalId /\ ~FetchAllTrait(1) /\ ~objects[1].isLimitedQuery
    /\ processAllTarget[1] /\ ~processAllSource[1]
    /\ objects[2].allRecords
    /\ processAllSource[2] /\ processAllTarget[2]
    /\ tasks = <<1, 2, 3>>
    /\ queryTasks = <<2, 1, 3>>

\* The tasks on which the method was called, in the order of the calls.
VisitedBy(method) ==
    LET calls == SelectSeq(visits, LAMBDA v : v[1] = method)
    IN  [i \in 1..Len(calls) |-> calls[i][2]]

\* C26: in the per-task loops of getTotalRecordsCount() and of
\* deleteOldRecords() the tasks are visited in ascending index of tasks, each
\* once: the tasks visited so far are the first ones of tasks, in the order
\* of tasks.
C26_LoopsFollowTaskOrder ==
    \A method \in {"getTotalRecordsCountAsync", "deleteOldTargetRecords"} :
        /\ Len(VisitedBy(method)) <= Len(tasks)
        /\ VisitedBy(method) = SubSeq(tasks, 1, Len(VisitedBy(method)))

ApiMethods == {"createCRUDApiJobAsync", "processCRUDApiBatchAsync"}

SimulationMethods == {"createCRUDSimulationJobAsync", "processCRUDSimulationBatchAsync"}

EngineCallsOf(method) == {i \in 1..Len(engineCalls) : engineCalls[i] = method}

\* C30: in simulation mode executeCRUD calls neither createCRUDApiJobAsync
\* nor processCRUDApiBatchAsync: it creates the job with
\* createCRUDSimulationJobAsync, once, and processes every chunk with
\* processCRUDSimulationBatchAsync; outside simulation mode it calls neither
\* of the simulation variants and creates the job with createCRUDApiJobAsync.
C30_SimulationNeverReachesApi ==
    /\ simulationMode =>
           /\ \A i \in 1..Len(engineCalls) : engineCalls[i] \notin ApiMethods
           /\ epc \in {"process", "done", "failed"} =>
                  Cardinality(EngineCallsOf("createCRUDSimulationJobAsync")) = 1
           /\ epc \in {"process", "done"} =>
                  Cardinality(EngineCallsOf("processCRUDSimulationBatchAsync")) = chunkIndex
    /\ ~simulationMode =>
           /\ \A i \in 1..Len(engineCalls) : engineCalls[i] \notin SimulationMethods
           /\ epc \in {"process", "done", "failed"} =>
                  Cardinality(EngineCallsOf("createCRUDApiJobAsync")) = 1

\* C30 witness: executeCRUD has returned the records in simulation mode after
\* one call of each simulation variant.
C30_Witness ==
    /\ epc = "done"
    /\ simulationMode
    /\ engineCalls = <<"executeCRUD", "createCRUDSimulationJobAsync",
                       "processCRUDSimulationBatchAsync">>
    /\ crudResult.returned = "records"
    /\ Len(crudResult.records) = Len(crudRecords)
    /\ Len(crudRecords) > 0

\* The rows of the input records that the records stand for, in order.
RowsOf(records) == [i \in 1..Len(records) |-> records[i].row]

\* The batch calls made so far, of either variant.
BatchCalls ==
    Cardinality(EngineCallsOf("processCRUDApiBatchAsync"))
        + Cardinality(EngineCallsOf("processCRUDSimulationBatchAsync"))

\* The rows of the records in the chunks at the 0-based indexes from..to.
RowsInChunks(from, to) ==
    UNION {{chunks[c + 1][i].row : i \in 1..Len(chunks[c + 1])} : c \in from..to}

\* C31: processCRUDApiJobAsync processes the chunks in order (the results
\* collected after k chunks are those of the first k chunks, which hold the
\* input records in their order); at the first chunk whose batch returns no
\* result it returns null without a call for any later chunk, and the list
\* written to the target CSV file is empty whatever the earlier chunks
\* returned; when every chunk has a result it returns the results of all the
\* chunks in chunk order.
C31_StopsAtFirstFailedChunk ==
    /\ epc = "process" =>
           /\ BatchCalls = chunkIndex
           /\ RowsOf(allResultRecords) = [i \in 1..Len(allResultRecords) |-> i]
           /\ Range(RowsOf(allResultRecords)) = RowsInChunks(0, chunkIndex - 1)
    /\ (epc = "done" /\ crudResult.returned = "null") =>
           /\ chunkIndex < Len(chunks)
           /\ BatchCalls = chunkIndex + 1
           /\ crudResult.records = <<>>
           /\ \A i \in 1..Len(targetCsvWrites) : targetCsvWrites[i] = <<>>
    /\ (epc = "done" /\ crudResult.returned = "records") =>
           /\ chunkIndex = Len(chunks)
           /\ BatchCalls = Len(chunks)
           /\ RowsOf(crudResult.records) = RowsOf(crudRecords)

\* C31 witness: the batch of the second of two chunks returned no result
\* after the first chunk had returned a record: executeCRUD returned null and
\* the target CSV file was written with an empty list.
C31_Witness ==
    /\ epc = "done"
    /\ crudResult.returned = "null"
    /\ Len(chunks) = 2
    /\ chunkIndex = 1
    /\ Len(allResultRecords) = 1
    /\ targetCsvWrites = << <<>> >>

\* C32: a call of processCRUDApiJobAsync that has returned, with records or
\* with null, has written the target CSV file exactly once if
\* createTargetCSVFiles is set and not at all otherwise; the write comes after
\* the last processed chunk: while chunks are still processed nothing has been
\* written, and what is written is the list returned.
C32_TargetCsvWrittenOnce ==
    /\ epc = "done" =>
           /\ Len(targetCsvWrites) = (IF createTargetCSVFiles THEN 1 ELSE 0)
           /\ createTargetCSVFiles => targetCsvWrites[1] = crudResult.records
    /\ epc # "done" => targetCsvWrites = <<>>
    /\ ~createTargetCSVFiles => targetCsvWrites = <<>>

\* C32 witness: with createTargetCSVFiles set, two chunks were processed and
\* the file was then written once, with the records of both.
C32_Witness ==
    /\ epc = "done"
    /\ createTargetCSVFiles
    /\ Len(chunks) = 2
    /\ chunkIndex = 2
    /\ crudResult.returned = "records"
    /\ targetCsvWrites = <<allResultRecords>>
    /\ Len(allResultRecords) = 2

\* executeCRUD has ended: it returned, or an exception left it.
ExecuteCRUDEnded == epc \in {"done", "failed"}

\* C33: when executeCRUD has ended, by returning records, by returning null
\* or by an exception from the job creation or from a batch, sObjectName is
\* again the name the engine had before the call ("Account", which the call
\* saved in oldSObjectName).
C33_SObjectNameRestored ==
    ExecuteCRUDEnded => (sObjectName = "Account" /\ sObjectName = oldSObjectName)

\* C34: in simulation mode executeCRUD never ends with an exception, and when
\* it has ended it has returned one result record per input record, in the
\* order of the input (an empty result for an empty list); for an Insert with
\* updateRecordId each of them carries a generated Id.
C34_SimulationCompletes ==
    simulationMode =>
        /\ epc # "failed"
        /\ epc = "done" =>
               /\ crudResult.returned = "records"
               /\ RowsOf(crudResult.records) = RowsOf(crudRecords)
               /\ (operation = "Insert" /\ updateRecordId) =>
                      \A i \in 1..Len(crudResult.records) : crudResult.records[i].Id = "made"

====
